---------------------------- MODULE Spec2Model ----------------------------
(***************************************************************************)
(* Munin-Core: file intake (scripts/file_watcher.py), storage quota        *)
(* (storage/quota.py, api/utils/quota.py), quarantine purge, event content *)
(* hashing (normalize.py, file_watcher.py), parser / handler selection     *)
(* (normalize.py, ingestor/handlers, ingestor/sniffer.py) and the line     *)
(* parsers (parsers/*.py) and the batch sink (api/main.py).                *)
(*                                                                         *)
(* Each part has its own variables and its own specification; a            *)
(* specification leaves the variables of the other parts at their idle     *)
(* values.                                                                 *)
(***************************************************************************)
EXTENDS Integers, Sequences, FiniteSets, TLC

VARIABLES
    \* --- event content hashing (SpecHash)
    hEv1, hEv2, hOut,
    \* --- parser / handler selection (SpecSelect)
    pReg,        \* parsers REGISTRY: the registered parsers, in registration order
    hReg,        \* handlers REGISTRY: the registered handler names, in insertion order
    csvDialect,  \* CSVParser._dialect of the registered CSVParser instance
    selOp,       \* the selection operation under observation
    selIn,       \* its input (sample, file or path)
    selFirst,    \* what its first call returned
    selLast,     \* what its latest call returned
    selCalls,    \* how often it was called
    selBetween,  \* another sample was sniffed after the first call
    \* --- line parsers (SpecParse)
    plLine,      \* the line handed to parse_line
    plLineNo,    \* its line number
    plOut,       \* what parse_line did with it
    \* --- storage quota (SpecQuota)
    qImpl,       \* "enforce_quota" (storage/quota.py) or "enforce_quota_loop" (api/utils/quota.py)
    qRows,       \* the rows of the pruned table (event_occurrence, logs)
    qSize,       \* size of the database file, in model units
    qCfg,        \* retention days and the watermarks
    qNow,        \* the clock
    qPc,         \* "idle", "loop" (enforce_quota_loop between two passes), "done";
                 \* "ingested", "skipped", "raised": how ingest ended
    qDeleted,    \* the rows enforcement has deleted
    qRet,        \* what enforcement returned
    qAlerts,     \* the STORAGE_HIGH alerts emitted
    \* --- quarantine purge (SpecPurge)
    pDir,        \* the quarantine directory: its files, each with its reason note
    pCfg,        \* QUARANTINE_RETENTION_DAYS and QUARANTINE_MAX_BYTES
    pNow,        \* time.time()
    pFails,      \* the names whose unlink raises
    pPc,         \* "idle", "done"
    pBefore,     \* the directory as purge_quarantine found it
    pAfterAge,   \* the directory between the age purge and the size-cap purge
    pTree,       \* the files of the incoming and the processing directory
    \* --- the watcher (SpecWatcher)
    wIncoming,   \* the files of the incoming directory
    wProcessing, \* the files of the processing directory
    wQuarantine, \* the files of the quarantine directory, each with its reason note
    wManifest,   \* the rows of file_manifest, in id order
    wEvents,     \* the rows of event_occurrence
    wNow,        \* the clock
    wSubmitted,  \* how many files have been dropped into incoming
    wFaulted,    \* whether a step of some run has raised on a fault
    wMoved,      \* how many files have been moved into the processing directory
    wDown,       \* the watcher process is not running
    wBoot,       \* the files the processing directory held at the last start-up
    wLast        \* what the last event handler did

hashVars == <<hEv1, hEv2, hOut>>
parseVars == <<plLine, plLineNo, plOut>>
quotaVars == <<qImpl, qRows, qSize, qCfg, qNow, qPc, qDeleted, qRet, qAlerts>>
purgeVars == <<pDir, pCfg, pNow, pFails, pPc, pBefore, pAfterAge, pTree>>
watchVars ==
    <<wIncoming, wProcessing, wQuarantine, wManifest, wEvents, wNow, wSubmitted,
      wFaulted, wMoved, wDown, wBoot, wLast>>
selVars ==
    <<pReg, hReg, csvDialect, selOp, selIn, selFirst, selLast, selCalls, selBetween>>

\* Python's None, for the optional text fields.
None == "<None>"

\* In place of a count, when the call raised instead of returning one.
Raised == -1

(***************************************************************************)
(* Generic helpers.                                                        *)
(***************************************************************************)
Range(s) == {s[i] : i \in DOMAIN s}

\* hashlib.sha256(...).hexdigest(): modelled as collision free, the digest is
\* the byte string that was fed to it.
SHA256(bytes) == <<"sha256", bytes>>

(***************************************************************************)
(* normalize.content_hash: sha256 of json.dumps(key, sort_keys=True) where *)
(* key holds source_path, event_time, level, message and attrs of the      *)
(* event.  attrs is a Python dict: a sequence of <<key, value>> pairs in   *)
(* insertion order with distinct keys.                                     *)
(***************************************************************************)
\* The attribute keys of the model, in the order Python compares the strings.
KeyOrder == <<"host", "tag", "user">>
KeyRank(k) == CHOOSE i \in DOMAIN KeyOrder : KeyOrder[i] = k

RECURSIVE InsertSorted(_, _)
InsertSorted(pair, sorted) ==
    IF sorted = <<>> THEN <<pair>>
    ELSE IF KeyRank(pair[1]) <= KeyRank(Head(sorted)[1])
         THEN <<pair>> \o sorted
         ELSE <<Head(sorted)>> \o InsertSorted(pair, Tail(sorted))

RECURSIVE SortByKey(_)
SortByKey(pairs) ==
    IF pairs = <<>> THEN <<>>
    ELSE InsertSorted(Head(pairs), SortByKey(Tail(pairs)))

\* A bug json.dumps would have without sort_keys: the pairs in insertion order.
JsonDumpsAttrs_unsorted(attrs) == attrs

\* json.dumps(dict, sort_keys=True) of the attrs mapping.
JsonDumpsAttrs(attrs) == SortByKey(attrs)

\* The dict `key` of content_hash, serialised with its keys sorted.
NormalizeKey(ev) ==
    <<<<"attrs", JsonDumpsAttrs(ev.attrs)>>,
      <<"event_time", ev.event_time>>,
      <<"level", ev.level>>,
      <<"message", ev.message>>,
      <<"source_path", ev.source_path>>>>

content_hash(ev) == SHA256(NormalizeKey(ev))

(***************************************************************************)
(* file_watcher.content_hash(level, message, attrs_json).                  *)
(***************************************************************************)
\* str.strip() and str.upper() on the texts of the model.
StrStrip(s) ==
    CASE s = " info " -> "info"
      [] s = " " -> ""
      [] OTHER -> s

StrUpper(s) ==
    CASE s = "info" -> "INFO"
      [] s = "error" -> "ERROR"
      [] OTHER -> s

OrEmpty(s) == IF s = None THEN "" ELSE s

\* The digest of level_n | message | attrs_n.
watcher_content_hash(level, message, attrs_json) ==
    SHA256(<<StrUpper(StrStrip(OrEmpty(level))), "|", message, "|",
             StrStrip(OrEmpty(attrs_json))>>)

\* process_one_file, lines 514-516: every line is the row
\* (event_time_utc, level, message, attrs_json) = (None, None, msg, None).
WatcherRowHash(msg) == watcher_content_hash(None, msg, None)

(***************************************************************************)
(* SpecHash: two events drawn from a bounded set, hashed by both           *)
(* implementations.                                                        *)
(***************************************************************************)
HashPaths == {"a.log", "b.log"}
HashTypes == {"jsonl", "txt"}
HashLines == {1, 2}
HashTimes == {None, "2025-09-20T12:34:56"}
HashLevels == {"", "INFO"}
HashMessages == {"m1", "m2"}
HashAttrs ==
    {<<>>, <<<<"host", "h1">>>>, <<<<"host", "h2">>>>,
     <<<<"host", "h1">>, <<"user", "u1">>>>,
     <<<<"user", "u1">>, <<"host", "h1">>>>}

HashEvents ==
    [source_path : HashPaths, source_type : HashTypes, line_number : HashLines,
     event_time : HashTimes, level : HashLevels, message : HashMessages,
     attrs : HashAttrs, raw_excerpt : {"raw"}]

NoHashes == [done |-> FALSE, n1 |-> <<>>, n2 |-> <<>>, w1 |-> <<>>, w2 |-> <<>>]

HashIdle == hEv1 = <<>> /\ hEv2 = <<>> /\ hOut = NoHashes

HashInit ==
    /\ hEv1 \in HashEvents
    /\ hEv2 \in {e \in HashEvents : e.source_path = "a.log"}
    /\ hOut = NoHashes

\* Both events are hashed, by normalize.content_hash and as rows of the watcher.
HashBoth ==
    /\ ~hOut.done
    /\ hOut' = [done |-> TRUE,
                n1 |-> content_hash(hEv1), n2 |-> content_hash(hEv2),
                w1 |-> WatcherRowHash(hEv1.message),
                w2 |-> WatcherRowHash(hEv2.message)]
    /\ UNCHANGED <<hEv1, hEv2>>

(***************************************************************************)
(* Samples and files.  A text is the sequence of its lines; a line is      *)
(* known by what the sniffers and parsers can tell of it:                  *)
(*   blank   empty after strip()                                           *)
(*   text    matches none of the patterns                                  *)
(*   logts   matches handlers/log.py LOG_LINE_RE (leading ISO timestamp)   *)
(*   json    a JSON object or array on one line                            *)
(*   syslog  matches parsers/syslog.py SYSLOG_RE                           *)
(*   csv     delimited columns csv.Sniffer recognises                      *)
(***************************************************************************)
LineKinds == {"blank", "text", "logts", "json", "syslog", "csv"}

MaxSampleLines == 2

RECURSIVE SeqsUpTo(_, _)
SeqsUpTo(S, n) ==
    IF n = 0 THEN {<<>>}
    ELSE LET shorter == SeqsUpTo(S, n - 1)
         IN  shorter \cup {Append(q, x) : q \in shorter, x \in S}

Samples == SeqsUpTo(LineKinds, MaxSampleLines)

NonBlank(lines) == SelectSeq(lines, LAMBDA k : k # "blank")
CountKind(lines, kind) == Len(SelectSeq(lines, LAMBDA k : k = kind))

(***************************************************************************)
(* parsers/*.py: sniff(sample, filename), confidence in hundredths.        *)
(***************************************************************************)
\* csv.Sniffer().sniff(sample) finds a dialect: the sample has delimited lines
\* and no other text.
CsvSniffable(sample) ==
    /\ CountKind(sample, "csv") >= 1
    /\ \A i \in DOMAIN sample : sample[i] \in {"csv", "blank"}

\* A bug: the confidence read from the dialect an earlier sniff left behind.
CSVParser_sniff_stale(sample, dialect) ==
    IF CsvSniffable(sample) \/ dialect # "excel" THEN 60 ELSE 0

CSVParser_sniff(sample, dialect) == IF CsvSniffable(sample) THEN 60 ELSE 0

\* self._dialect after sniff: set when the sniffer succeeded.
CSVParser_dialect_after(sample, dialect) ==
    IF CsvSniffable(sample) THEN "sniffed" ELSE dialect

\* lstrip() starts with { or [, and json.loads of the whole sample succeeds.
JSONLParser_sniff(sample) ==
    IF Len(NonBlank(sample)) = 1 /\ NonBlank(sample)[1] = "json" THEN 90 ELSE 0

PlainTextParser_sniff(sample) == 30

\* SYSLOG_RE.match(sample): one syslog line, at most one newline after it.
SyslogParser_sniff(sample) ==
    IF sample \in {<<"syslog">>, <<"syslog", "blank">>} THEN 70 ELSE 0

\* "custom" is a parser a deployment adds with base.register: a subclass of
\* PlainTextParser that keeps the sniff it inherits.
ParserNames == {"csv", "jsonl", "txt", "syslog", "custom"}

Parser_sniff(p, sample, dialect) ==
    CASE p = "csv" -> CSVParser_sniff(sample, dialect)
      [] p = "jsonl" -> JSONLParser_sniff(sample)
      [] p \in {"txt", "custom"} -> PlainTextParser_sniff(sample)
      [] p = "syslog" -> SyslogParser_sniff(sample)

\* The scores of the registry, in registration order.
Scored(reg, sample, dialect) ==
    [i \in DOMAIN reg |-> Parser_sniff(reg[i], sample, dialect)]

\* A bug: the last of the highest scores.
FirstMax_last(scores) ==
    CHOOSE i \in DOMAIN scores :
        /\ \A j \in DOMAIN scores : scores[j] <= scores[i]
        /\ \A j \in DOMAIN scores : j > i => scores[j] < scores[i]

\* The index Python's max(scored, key=score) and sorted(scored, key=score,
\* reverse=True)[0] return: the first of the highest scores (the sort is stable).
FirstMax(scores) ==
    CHOOSE i \in DOMAIN scores :
        /\ \A j \in DOMAIN scores : scores[j] <= scores[i]
        /\ \A j \in DOMAIN scores : j < i => scores[j] < scores[i]

\* normalize.choose_parser
choose_parser(reg, sample, dialect) ==
    IF reg = <<>> THEN "RuntimeError"
    ELSE reg[FirstMax(Scored(reg, sample, dialect))]

\* A bug: the first registered parser that scores above 0.
best_parser_firstPositive(reg, sample, dialect) ==
    LET scores == Scored(reg, sample, dialect)
        positive == {i \in DOMAIN reg : scores[i] > 0}
    IN  IF positive = {} THEN None
        ELSE reg[CHOOSE i \in positive : \A j \in positive : i <= j]

\* ingestor/handlers/base.best_parser
best_parser(reg, sample, dialect) ==
    IF reg = <<>> THEN None
    ELSE LET scores == Scored(reg, sample, dialect)
             best == FirstMax(scores)
         IN  IF scores[best] > 0 THEN reg[best] ELSE None

\* Every parser of the registry sniffs the sample: the CSVParser keeps the
\* dialect it found.
DialectAfter(reg, sample, dialect) ==
    IF "csv" \in Range(reg) THEN CSVParser_dialect_after(sample, dialect)
    ELSE dialect

(***************************************************************************)
(* ingestor/handlers: the handler classes and their registry.              *)
(*   evtx    EVTXHandler: can_handle, parse                                *)
(*   raw     RawHandler: parse                                             *)
(*   log     LogFileHandler: sniff, parse                                  *)
(*   csvlog  CsvLogHandler: parse                                          *)
(*   plugin  a handler added as registry.py's docstring describes, with a  *)
(*           can_handle of its own                                         *)
(*   applog  a subclass of LogFileHandler registered under an extension of *)
(*           its own: it inherits sniff and parse                          *)
(***************************************************************************)
HandlerNames == {"evtx", "raw", "log", "csvlog", "plugin", "applog"}

HasSniff(h) == h \in {"log", "applog"}
HasCanHandle(h) == h \in {"evtx", "plugin"}

\* str.splitlines() of "\n".join(lines): a final empty line is no line.
SplitLinesCount(lines) ==
    IF lines = <<>> THEN 0
    ELSE IF lines[Len(lines)] = "blank" THEN Len(lines) - 1 ELSE Len(lines)

\* LogFileHandler.sniff: hits / checked over the first lines, in hundredths.
LogSniffLines == 10
LogFileHandler_sniff(sample) ==
    LET checked == IF SplitLinesCount(sample) < LogSniffLines
                   THEN SplitLinesCount(sample) ELSE LogSniffLines
        hits == CountKind(SubSeq(sample, 1, checked), "logts")
    IN  IF checked = 0 THEN 0 ELSE (hits * 100) \div checked

\* bool(sample_text) of "\n".join(sample_lines): empty only without lines or
\* with a single blank line.
SampleTextTruthy(sample) == ~(sample = <<>> \/ sample = <<"blank">>)

\* sniff_file's loop over REGISTRY.items(): a later handler wins only with a
\* strictly higher confidence.
RECURSIVE BestHandler(_, _, _, _)
BestHandler(reg, sample, best, best_conf) ==
    IF reg = <<>> THEN best
    ELSE LET h == Head(reg)
             conf == IF HasSniff(h) THEN LogFileHandler_sniff(sample) ELSE 0
         IN  IF HasSniff(h) /\ conf > best_conf
             THEN BestHandler(Tail(reg), sample, h, conf)
             ELSE BestHandler(Tail(reg), sample, best, best_conf)

\* sniff_file(path, sample_size): the lines read for the sample.
sample_size == 5
SampleOf(file) ==
    SubSeq(file.lines, 1, IF Len(file.lines) < sample_size
                          THEN Len(file.lines) ELSE sample_size)

\* A bug: None whenever no handler matched, without the raw fallback.
sniff_file_noFallback(reg, file) ==
    IF file.readable /\ file.evtx # "none" THEN "evtx"
    ELSE IF ~file.readable THEN None
    ELSE BestHandler(reg, SampleOf(file), None, 0)

\* A bug: the signature looked at only after the registered handlers scored.
sniff_file_scoresFirst(reg, file) ==
    IF ~file.readable THEN None
    ELSE LET best == BestHandler(reg, SampleOf(file), None, 0)
         IN  IF best # None THEN best
             ELSE IF file.evtx # "none" THEN "evtx"
             ELSE IF SampleTextTruthy(SampleOf(file)) THEN "raw"
             ELSE None

\* The registered handlers whose sniff method sniff_file calls for the file.
SniffCalls(reg, file) ==
    IF ~file.readable \/ file.evtx # "none" THEN {}
    ELSE {h \in Range(reg) : HasSniff(h)}

\* ingestor/sniffer.sniff_file: the handler for the file, or None.
sniff_file(reg, file) ==
    IF file.readable /\ file.evtx # "none" THEN "evtx"
    ELSE IF ~file.readable THEN None
    ELSE LET best == BestHandler(reg, SampleOf(file), None, 0)
         IN  IF best # None THEN best
             ELSE IF SampleTextTruthy(SampleOf(file)) THEN "raw"
             ELSE None

\* ingestor/handlers/registry.sniff_best_handler
sniff_best_handler(reg, sample) ==
    LET best == BestHandler(reg, sample, None, 0)
    IN  IF best # None THEN best ELSE "raw"

\* handler.can_handle(path): "yes", "no" or "raise".
can_handle(h, path) ==
    IF h = "evtx" THEN (IF path.evtx # "none" THEN "yes" ELSE "no")
    ELSE path.plugin

\* A bug: the looked-up handler returned although can_handle refused the path.
get_handler_for_unchecked(reg, path) ==
    LET ext == IF path.ext = "" THEN "raw" ELSE path.ext
    IN  IF ext \in Range(reg) THEN ext ELSE "raw"

\* ingestor/handlers/registry.get_handler_for: path.ext is the lower-cased
\* suffix without its dot.
get_handler_for(reg, path) ==
    LET ext == IF path.ext = "" THEN "raw" ELSE path.ext
        handler == IF ext \in Range(reg) THEN ext ELSE "raw"
    IN  IF HasCanHandle(handler) /\ can_handle(handler, path) # "yes"
        THEN "raw"
        ELSE handler

\* The number of events handler.parse(file) returns, or Raised.
\*   RawHandler: one per non-blank line.  LogFileHandler: one per line that
\*   matches LOG_LINE_RE.  EVTXHandler: one per record, an exception on a file
\*   python-evtx cannot read.  CsvLogHandler: one per row after the header.
ParseCount(h, file) ==
    CASE h = "raw" -> Len(NonBlank(file.lines))
      [] h \in {"log", "applog"} -> CountKind(file.lines, "logts")
      [] h = "evtx" -> (CASE file.evtx = "records" -> 1
                          [] file.evtx = "empty" -> 0
                          [] OTHER -> Raised)
      [] h = "csvlog" -> (IF Len(file.lines) = 0 THEN 0 ELSE Len(file.lines) - 1)
      [] OTHER -> Raised

(***************************************************************************)
(* parsers/jsonl.py: JSONLParser.parse_line(line, line_no, filename).      *)
(* A line is known by what json.loads makes of it:                         *)
(*   blank      empty after strip()                                        *)
(*   malformed  json.loads raises                                          *)
(*   array, scalar   valid JSON that is no object                          *)
(*   object     a JSON object; of its members the parser reads             *)
(*       ts     the first truthy of ts / time / timestamp: absent, a text  *)
(*              dateutil parses ("valid"), a text it rejects ("invalid"),  *)
(*              or a number                                                *)
(*       level  the first truthy of level / lvl / severity: absent, a text *)
(*              or a number                                                *)
(*       msg    the first truthy of msg / message / event: absent or text  *)
(*       rest   the other members, in the order they were written          *)
(***************************************************************************)
JsonObjects ==
    [kind : {"object"}, ts : {"absent", "valid", "invalid", "number"},
     level : {"absent", "text", "number"}, msg : {"absent", "text"},
     rest : {<<>>, <<<<"host", "h1">>>>}]

JsonOther(kind) ==
    [kind |-> kind, ts |-> "absent", level |-> "absent", msg |-> "absent",
     rest |-> <<>>]

JsonLines ==
    JsonObjects \cup {JsonOther(k) : k \in {"blank", "malformed", "array", "scalar"}}

Skip == [kind |-> "skip"]
Raise(what) == [kind |-> "raise", error |-> what]
Event(ev) == [kind |-> "event", ev |-> ev]

\* (obj.get("level") or obj.get("lvl") or obj.get("severity") or "").upper()
JSONL_level(line) ==
    CASE line.level = "absent" -> Event("")
      [] line.level = "text" -> Event("LEVEL")
      [] OTHER -> Raise("AttributeError")

\* dtp.parse(ts).isoformat() if ts else None, None when it raises
JSONL_event_time(line) ==
    IF line.ts = "valid" THEN "2025-09-20T12:34:56" ELSE None

JSONLParser_parse_line(line, line_no, filename) ==
    CASE line.kind = "blank" -> Skip
      [] line.kind = "malformed" -> Skip
      [] line.kind \in {"array", "scalar"} -> Raise("AttributeError")
      [] OTHER ->
           IF JSONL_level(line).kind = "raise" THEN JSONL_level(line)
           ELSE Event([source_path |-> filename, source_type |-> "jsonl",
                       line_number |-> line_no,
                       event_time |-> JSONL_event_time(line),
                       level |-> JSONL_level(line).ev,
                       message |-> IF line.msg = "text" THEN "msg" ELSE "line",
                       attrs |-> line.rest, raw_excerpt |-> "line"])

(***************************************************************************)
(* SpecParse: parse_line applied to one line of a file.                    *)
(***************************************************************************)
MaxLineNo == 3

NotParsed == [kind |-> "none"]

ParseIdle == plLine = <<>> /\ plLineNo = 0 /\ plOut = NotParsed

ParseInit ==
    /\ plLine \in JsonLines
    /\ plLineNo \in 1..MaxLineNo
    /\ plOut = NotParsed

ParseLine ==
    /\ plOut = NotParsed
    /\ plOut' = JSONLParser_parse_line(plLine, plLineNo, "a.jsonl")
    /\ UNCHANGED <<plLine, plLineNo>>

(***************************************************************************)
(* SpecSelect: one selection operation is called on one input, again and   *)
(* again, while other samples are sniffed in between.  The registries are  *)
(* fixed at start-up.                                                      *)
(***************************************************************************)
SelectOps ==
    {"choose_parser", "best_parser", "sniff_file", "sniff_best_handler",
     "get_handler_for"}

\* parsers/__init__.py registers csv, jsonl, txt, syslog in this order.
ImportedParsers == <<"csv", "jsonl", "txt", "syslog">>
ParserRegistries ==
    {<<>>, ImportedParsers, <<"syslog", "csv", "jsonl">>, <<"csv">>,
     <<"custom", "csv", "txt">>}

\* sniffer.py and registry.py import raw (and evtx) before any lookup.
ImportedHandlers == <<"evtx", "raw", "log">>
HandlerRegistries ==
    {<<"raw">>, <<"evtx", "raw">>, ImportedHandlers,
     <<"log", "csvlog", "plugin", "evtx", "raw">>,
     <<"applog", "raw", "log">>}

EvtxKinds == {"none", "corrupt", "empty", "records"}
PathExts == {"", "log", "evtx", "unknown", "plugin"}

SelectInput(lines, evtx, readable, ext, plugin) ==
    [lines |-> lines, evtx |-> evtx, readable |-> readable, ext |-> ext,
     plugin |-> plugin]

SelectInputs(op) ==
    CASE op = "sniff_file" ->
           {SelectInput(l, e, r, "", "yes") :
              l \in SeqsUpTo({"blank", "text", "logts"}, MaxSampleLines),
              e \in EvtxKinds, r \in BOOLEAN}
      [] op = "get_handler_for" ->
           {SelectInput(<<"text">>, e, TRUE, x, c) :
              e \in {"none", "records"}, x \in PathExts,
              c \in {"yes", "no", "raise"}}
      [] OTHER -> {SelectInput(l, "none", TRUE, "", "yes") : l \in Samples}

SelectResult(op, in) ==
    CASE op = "choose_parser" -> choose_parser(pReg, in.lines, csvDialect)
      [] op = "best_parser" -> best_parser(pReg, in.lines, csvDialect)
      [] op = "sniff_file" -> sniff_file(hReg, in)
      [] op = "sniff_best_handler" -> sniff_best_handler(hReg, in.lines)
      [] op = "get_handler_for" -> get_handler_for(hReg, in)

UsesParsers(op) == op \in {"choose_parser", "best_parser"}

MaxSelCalls == 2

SelectIdle ==
    /\ pReg = <<>> /\ hReg = <<>> /\ csvDialect = "excel"
    /\ selOp = "" /\ selIn = <<>> /\ selFirst = "unset" /\ selLast = "unset"
    /\ selCalls = 0 /\ selBetween = FALSE

\* The registry the observed operation does not read is the imported one.
SelectInit ==
    /\ selOp \in SelectOps
    /\ pReg \in (IF UsesParsers(selOp) THEN ParserRegistries
                 ELSE {ImportedParsers})
    /\ hReg \in (IF UsesParsers(selOp) THEN {ImportedHandlers}
                 ELSE HandlerRegistries)
    /\ csvDialect = "excel"
    /\ selIn \in SelectInputs(selOp)
    /\ selFirst = "unset" /\ selLast = "unset"
    /\ selCalls = 0 /\ selBetween = FALSE

\* The observed operation is called on its input.
SelectCall ==
    /\ selCalls < MaxSelCalls
    /\ selLast' = SelectResult(selOp, selIn)
    /\ selFirst' = IF selCalls = 0 THEN SelectResult(selOp, selIn) ELSE selFirst
    /\ selCalls' = selCalls + 1
    /\ csvDialect' = IF UsesParsers(selOp)
                     THEN DialectAfter(pReg, selIn.lines, csvDialect)
                     ELSE csvDialect
    /\ UNCHANGED <<pReg, hReg, selOp, selIn, selBetween>>

\* Some other sample is sniffed by the same registry.
SelectOther ==
    /\ selCalls >= 1
    /\ \E other \in Samples :
         /\ other # selIn.lines
         /\ csvDialect' = IF UsesParsers(selOp)
                          THEN DialectAfter(pReg, other, csvDialect)
                          ELSE csvDialect
    /\ selBetween' = TRUE
    /\ UNCHANGED <<pReg, hReg, selOp, selIn, selFirst, selLast, selCalls>>

(***************************************************************************)
(* Storage quota.  A time is [day, tod]; the store keeps it as ISO text    *)
(* "YYYY-MM-DDTHH:MM:SS" and SQLite's datetime('now', '-N days') is the    *)
(* text "YYYY-MM-DD HH:MM:SS": the DELETE compares the two as text.        *)
(***************************************************************************)
\* SQL NULL in a time column; the days of the model start at 1.
NullTime == [day |-> 0, tod |-> 0]

CharCode(c) == IF c = "T" THEN 84 ELSE 32

\* The text of a stored time and of SQLite's datetime(): date, separator, time.
IsoText(t) == <<t.day, "T", t.tod>>
SqliteDatetime(t) == <<t.day, " ", t.tod>>

\* a < b as SQLite compares two texts.
TextLess(a, b) ==
    \/ a[1] < b[1]
    \/ a[1] = b[1] /\ CharCode(a[2]) < CharCode(b[2])
    \/ a[1] = b[1] /\ a[2] = b[2] /\ a[3] < b[3]

\* a is earlier than b, as times.
TimeBefore(a, b) == a.day < b.day \/ (a.day = b.day /\ a.tod < b.tod)

\* datetime('now', '-N days')
Cutoff(now, days) == [day |-> now.day - days, tod |-> now.tod]

\* ORDER BY event_time_utc ASC, id ASC: NULL sorts before every text.
RowPrecedes(r1, r2) ==
    \/ r1.time = NullTime /\ r2.time # NullTime
    \/ r1.time = NullTime /\ r2.time = NullTime /\ r1.id < r2.id
    \/ r1.time # NullTime /\ r2.time # NullTime /\ TimeBefore(r1.time, r2.time)
    \/ r1.time # NullTime /\ r2.time # NullTime /\ r1.time = r2.time /\ r1.id < r2.id

\* SELECT id ... ORDER BY ... LIMIT n
FirstRows(rows, n) ==
    {r \in rows : Cardinality({o \in rows : RowPrecedes(o, r)}) < n}

\* LIMIT 50000 of enforce_quota's subquery and PRUNE_DELETE_BATCH's default,
\* scaled to the model's tables.
DeleteBatch == 2

\* A bug: the oldest rows deleted without looking at the retention cutoff.
EnforceQuotaDeletes_noRetention(rows, now, cfg) == FirstRows(rows, DeleteBatch)

\* storage/quota.enforce_quota: the rows its DELETE removes.
EnforceQuotaDeletes(rows, now, cfg) ==
    {r \in FirstRows(rows, DeleteBatch) :
        /\ r.time # NullTime
        /\ TextLess(IsoText(r.time), SqliteDatetime(Cutoff(now, cfg.retention)))}

\* api/utils/quota.enforce_quota_loop: the rows its WHERE clause admits;
\* COALESCE(timestamp, ingest_time_utc) of a logs row.
LoopRowTime(r) == IF r.time # NullTime THEN r.time ELSE r.ingest
LoopPrunable(rows, now, cfg) ==
    {r \in rows :
        TextLess(IsoText(LoopRowTime(r)),
                 SqliteDatetime(Cutoff(now, cfg.retention)))}

\* DELETE ... LIMIT n without ORDER BY: any n of the admitted rows.
LoopDeleteChoices(rows, now, cfg) ==
    LET can == LoopPrunable(rows, now, cfg)
        n == IF Cardinality(can) < DeleteBatch THEN Cardinality(can) ELSE DeleteBatch
    IN  {D \in SUBSET can : Cardinality(D) = n}

\* The file after a DELETE: SQLite keeps freed pages in the file unless it is
\* vacuumed, so the size falls by anything from nothing to the rows removed.
SizesAfterDelete(size, deleted) ==
    {size - k : k \in 0..(IF Cardinality(deleted) < size
                          THEN Cardinality(deleted) ELSE size)}

(***************************************************************************)
(* SpecQuota: one run of quota enforcement on a store drawn from a bounded *)
(* set.                                                                    *)
(***************************************************************************)
MaxRows == 3
MaxDay == 3
MaxSize == 3

QuotaTimes == {[day |-> d, tod |-> t] : d \in 1..MaxDay, t \in {0, 2}}

\* The tables with n rows, ids 1..n.  A logs row has a timestamp (NOT NULL); an
\* event_occurrence row may have no event time.
QuotaTables(impl) ==
    UNION {
      {{[id |-> i, time |-> f[i], ingest |-> [day |-> MaxDay, tod |-> 0]] : i \in 1..n} :
         f \in [1..n -> IF impl = "enforce_quota" THEN QuotaTimes \cup {NullTime}
                        ELSE QuotaTimes]} :
      n \in 0..MaxRows}

QuotaConfigs == [retention : {0, 1, 2}, high : {2}, low : {1}]

NoReturn == [ok |-> "none", freed |-> 0]

QuotaIdle ==
    /\ qImpl = "" /\ qRows = {} /\ qSize = 0 /\ qCfg = <<>> /\ qNow = <<>>
    /\ qPc = "idle" /\ qDeleted = {} /\ qRet = NoReturn /\ qAlerts = 0

QuotaInit ==
    /\ qImpl \in {"enforce_quota", "enforce_quota_loop"}
    /\ qRows \in QuotaTables(qImpl)
    /\ qSize \in 0..MaxSize
    /\ qCfg \in QuotaConfigs
    /\ qNow = [day |-> MaxDay, tod |-> 1]
    /\ qPc = "idle" /\ qDeleted = {} /\ qRet = NoReturn /\ qAlerts = 0

\* storage/quota.enforce_quota(conn, cfg)
EnforceQuota ==
    /\ qImpl = "enforce_quota" /\ qPc = "idle"
    /\ IF qSize <= qCfg.high
       THEN /\ qRet' = [ok |-> "True", freed |-> 0]
            /\ UNCHANGED <<qRows, qSize, qDeleted>>
       ELSE LET del == EnforceQuotaDeletes(qRows, qNow, qCfg)
            IN  /\ qRows' = qRows \ del
                /\ qDeleted' = qDeleted \cup del
                /\ qSize' \in SizesAfterDelete(qSize, del)
                /\ qRet' = [ok |-> IF qSize' <= qCfg.low THEN "True" ELSE "False",
                            freed |-> qSize - qSize']
    /\ qPc' = "done"
    /\ UNCHANGED <<qImpl, qCfg, qNow, qAlerts>>

\* sqlite3's Cursor.rowcount after a statement that removed n rows: the count
\* for a statement that begins INSERT, UPDATE, DELETE or REPLACE, -1 for any
\* other, a statement that begins WITH included.
CursorRowcount(beginsWithDml, n) == IF beginsWithDml THEN n ELSE 0 - 1

\* api/utils/quota.enforce_quota_loop(): one pass of its while loop, or its
\* return when the size is at or below the high watermark.  DELETE ... LIMIT is
\* a syntax error on an SQLite built without SQLITE_ENABLE_UPDATE_DELETE_LIMIT.
EnforceQuotaLoop ==
    /\ qImpl = "enforce_quota_loop" /\ qPc \in {"idle", "loop"}
    /\ IF qSize > qCfg.high
       THEN \E deleteLimit \in BOOLEAN :
              IF ~deleteLimit
              THEN /\ qRet' = [ok |-> "raise", freed |-> 0]
                   /\ qPc' = "done"
                   /\ UNCHANGED <<qRows, qSize, qDeleted, qAlerts>>
              ELSE \E del \in LoopDeleteChoices(qRows, qNow, qCfg) :
                     LET deleted == CursorRowcount(FALSE, Cardinality(del))
                     IN  /\ qRows' = qRows \ del
                         /\ qDeleted' = qDeleted \cup del
                         /\ qSize' \in SizesAfterDelete(qSize, del)
                         /\ IF deleted <= 0
                            THEN /\ qAlerts' = qAlerts + 1
                                 /\ qRet' = [ok |-> "False", freed |-> 0]
                                 /\ qPc' = "done"
                            ELSE /\ qPc' = "loop"
                                 /\ UNCHANGED <<qAlerts, qRet>>
       ELSE /\ qRet' = [ok |-> IF qSize <= qCfg.low THEN "True" ELSE "False",
                        freed |-> 0]
            /\ qPc' = "done"
            /\ UNCHANGED <<qRows, qSize, qDeleted, qAlerts>>
    /\ UNCHANGED <<qImpl, qCfg, qNow>>

\* scripts/ingest_log.ingest(source, level, message) after its call of
\* enforce_quota_loop (the EnforceQuotaLoop steps before it) has returned or
\* raised: the record is inserted into logs with the current time only when
\* the call returned True.
ingest ==
    /\ qImpl = "enforce_quota_loop" /\ qPc = "done"
    /\ IF qRet.ok = "True"
       THEN /\ qRows' = qRows \cup {[id |-> Cardinality(qRows \cup qDeleted) + 1,
                                     time |-> qNow, ingest |-> qNow]}
            /\ qPc' = "ingested"
       ELSE /\ qRows' = qRows
            /\ qPc' = IF qRet.ok = "False" THEN "skipped" ELSE "raised"
    /\ UNCHANGED <<qImpl, qSize, qCfg, qNow, qDeleted, qRet, qAlerts>>

(***************************************************************************)
(* Quarantine purge.  A quarantined file is [name, mtime, size, note]:     *)
(* note is the size of its "<name>.reason.txt", 0 when it has none.        *)
(***************************************************************************)
\* _dir_size_bytes: every file of the directory counts, the reason notes too.
RECURSIVE dir_size_bytes(_)
dir_size_bytes(dir) ==
    IF dir = {} THEN 0
    ELSE LET f == CHOOSE g \in dir : TRUE
         IN  f.size + f.note + dir_size_bytes(dir \ {f})

\* _paired_delete: unlink each file and its reason note; an unlink that raises
\* is ignored and leaves the file behind.
paired_delete(dir, files, fails) ==
    {f \in dir : f \notin files}
        \cup {[f EXCEPT !.note = 0] : f \in {g \in dir : g \in files /\ g.name \in fails}}

\* mutant of glob: the listing descends from the parent directory
glob_fromParent(tree, dir) == UNION {tree[d] : d \in DOMAIN tree}

\* Path.glob("*") on a directory of the tree: the files of that directory.
glob(tree, dir) == tree[dir]

\* A bug: the files listed newest first.
MtimeOrders_newestFirst(dir) ==
    {ord \in [1..Cardinality(dir) -> dir] :
        /\ \A i, j \in DOMAIN ord : i # j => ord[i] # ord[j]
        /\ \A i, j \in DOMAIN ord : i < j => ord[i].mtime >= ord[j].mtime}

\* files.sort(key=st_mtime): oldest first; files of equal mtime stay in the
\* order glob listed them, which is any order.
MtimeOrders(dir) ==
    {ord \in [1..Cardinality(dir) -> dir] :
        /\ \A i, j \in DOMAIN ord : i # j => ord[i] # ord[j]
        /\ \A i, j \in DOMAIN ord : i < j => ord[i].mtime <= ord[j].mtime}

\* The loop of step 2: files are taken from the front of the list, each
\* taking its own size (not its note's) off the total, until the total is at
\* or under the cap.
RECURSIVE CapSelect(_, _, _)
CapSelect(ord, size, cap) ==
    IF ord = <<>> \/ size <= cap THEN {}
    ELSE {Head(ord)} \cup CapSelect(Tail(ord), size - Head(ord).size, cap)

\* Step 1 of purge_quarantine: the files whose mtime is before the cutoff.
Expired(dir, now, cfg) == {f \in dir : f.mtime < now - cfg.retention}

\* purge_quarantine(cfg), with the listing order ord chosen among
\* MtimeOrders of the directory left by the age purge.
AfterAgePurge(dir, now, cfg, fails) ==
    paired_delete(dir, Expired(dir, now, cfg), fails)

AfterCapPurge(dir, cfg, fails, ord) ==
    LET size == dir_size_bytes(dir)
    IN  IF size <= cfg.max_bytes THEN dir
        ELSE paired_delete(dir, CapSelect(ord, size, cfg.max_bytes), fails)

(***************************************************************************)
(* SpecPurge: one run of purge_quarantine on a quarantine directory drawn  *)
(* from a bounded set.                                                     *)
(***************************************************************************)
MaxQFiles == 2
PurgeNow == 4

QuarantineDirs ==
    UNION {
      {{[name |-> i, mtime |-> f[i].mtime, size |-> f[i].size, note |-> f[i].note] :
          i \in 1..n} :
         f \in [1..n -> [mtime : 1..(PurgeNow - 1), size : {1, 2}, note : {0, 1}]]} :
      n \in 0..MaxQFiles}

PurgeConfigs == [retention : {1, 2}, max_bytes : {1, 3, 5}]

\* The directories next to the quarantine directory, each empty or holding
\* a file older than every retention period of PurgeConfigs.
SiblingTrees ==
    [incoming : {{}, {[name |-> MaxQFiles + 1, mtime |-> 1, size |-> 2, note |-> 0]}},
     processing : {{}, {[name |-> MaxQFiles + 2, mtime |-> 1, size |-> 2, note |-> 0]}}]

PurgeIdle ==
    /\ pDir = {} /\ pCfg = <<>> /\ pNow = 0 /\ pFails = {} /\ pPc = "idle"
    /\ pBefore = {} /\ pAfterAge = {} /\ pTree = <<>>

PurgeInit ==
    /\ pDir \in QuarantineDirs
    /\ pCfg \in PurgeConfigs
    /\ pNow = PurgeNow
    /\ pFails \in {{}} \cup {{i} : i \in 1..MaxQFiles}
    /\ pPc = "idle"
    /\ pBefore = {} /\ pAfterAge = {}
    /\ pTree \in SiblingTrees

\* purge_quarantine(cfg): every file it looks at or deletes comes from
\* cfg.quarantine_dir.glob("*").
PurgeQuarantine ==
    /\ pPc = "idle"
    /\ LET tree == [quarantine |-> pDir, incoming |-> pTree.incoming,
                    processing |-> pTree.processing]
           listed == glob(tree, "quarantine")
           aged == AfterAgePurge(listed, pNow, pCfg, pFails)
       IN  /\ pAfterAge' = aged
           /\ \E ord \in MtimeOrders(aged) :
                LET left == AfterCapPurge(aged, pCfg, pFails, ord)
                    After(dir) ==
                        {f \in dir : f \notin listed}
                            \cup {f \in left : \E e \in dir : e.name = f.name}
                IN  /\ pDir' = After(pDir)
                    /\ pTree' = [incoming |-> After(pTree.incoming),
                                 processing |-> After(pTree.processing)]
    /\ pBefore' = pDir
    /\ pPc' = "done"
    /\ UNCHANGED <<pCfg, pNow, pFails>>

(***************************************************************************)
(* The watcher.  A file is [name, content, mtime]; a name is [stem, suffix,*)
(* stamp], stamp 0 unless move_atomic renamed the file; a content is the   *)
(* sequence of the file's lines.                                           *)
(***************************************************************************)
IGNORE_SUFFIXES == {".tmp", ".partial", ".swp", ".crdownload"}

\* mutant of Lower: the suffix is compared as it is spelled
Lower_asSpelled(suffix) == suffix

\* str.lower() on the suffixes of the model.
Lower(suffix) == IF suffix = ".TMP" THEN ".tmp" ELSE suffix

\* sha256_file: the digest of the file's bytes.
sha256_file(f) == SHA256(f.content)

\* The watcher's configuration: batch_size, the quota knobs and the quarantine
\* policy (in the units of the model's clock and sizes).
WatcherCfg ==
    [batch_size |-> 2, high |-> 2, low |-> 1, retention |-> 2,
     q_retention |-> 2, max_bytes |-> 4]

\* The steps of process_one_file that can raise: those of its body, and those
\* its except block guards with a try of their own.
TryFaults == {"move", "hash", "insert", "events", "mark", "unlink", "quota"}
ExceptFaults == {"reason", "mark_error", "purge"}
FaultPoints == TryFaults \cup ExceptFaults

\* A bug: the manifest is never found to hold the digest.
file_manifest_has_sha_never(manifest, sha) == FALSE

\* file_manifest_has_sha: a row with that digest exists, whatever its status.
file_manifest_has_sha(manifest, sha) ==
    \E i \in DOMAIN manifest : manifest[i].sha256 = sha

\* ix_file_manifest_sha256, the unique index on file_manifest(sha256): an
\* INSERT of a digest the table holds raises IntegrityError.
UniqueIndexViolated(manifest, sha) ==
    \E i \in DOMAIN manifest : manifest[i].sha256 = sha

\* file_manifest_insert: a new row, status 'processing'; returns lastrowid.
file_manifest_insert(manifest, rel_path, sha, bytes) ==
    Append(manifest,
           [id |-> Len(manifest) + 1, rel_path |-> rel_path, sha256 |-> sha,
            bytes |-> bytes, status |-> "processing", ingested_at_utc |-> 0])

\* mutant of file_manifest_mark: the 'committed' mark is left out
file_manifest_mark_skipCommitted(manifest, file_id, status, now) ==
    IF status = "committed" THEN manifest
    ELSE [manifest EXCEPT ![file_id] = [@ EXCEPT !.status = status]]

\* file_manifest_mark: 'committed' also sets ingested_at_utc.
file_manifest_mark(manifest, file_id, status, now) ==
    [manifest EXCEPT ![file_id] =
        IF status = "committed"
        THEN [@ EXCEPT !.status = status, !.ingested_at_utc = now]
        ELSE [@ EXCEPT !.status = status]]

\* The rows process_one_file builds for lines first..last of a file.
OccurrenceRows(events, file_id, content, first, last) ==
    {[id |-> Cardinality(events) + (k - first) + 1, file_id |-> file_id,
      line_no |-> k, time |-> NullTime, message |-> content[k],
      content_sha256 |-> WatcherRowHash(content[k])] : k \in first..last}

\* The number of rows the flushes before the last insert_occurrence_batch call
\* have stored: the full batches, less the last when the file ends on one.
RowsBeforeLastFlush(n, batch) ==
    IF n = 0 THEN 0
    ELSE IF n % batch = 0 THEN n - batch ELSE n - (n % batch)

\* mutant of SourceAfterMove: the file is copied, its source stays
SourceAfterMove_copied(inc, f) == inc

\* move_atomic: Path.replace (or shutil.move) takes the file out of the
\* directory it came from.
SourceAfterMove(inc, f) == inc \ {f}

\* mutant of MoveTarget: the file keeps its name, taken or not
MoveTarget_sameName(proc, f, now) == f.name

\* move_atomic: the name the file gets in the processing directory.
MoveTarget(proc, f, now) ==
    IF \E g \in proc : g.name = f.name
    THEN [f.name EXCEPT !.stamp = now]
    ELSE f.name

\* quarantine_with_reason: rename (or copy) to quarantine/<name>, replacing a
\* file already there under that name, then write <name>.reason.txt; a failure
\* to write the note is logged only.
QuarantineEntry(quar, f, reason, faults) ==
    LET old == {e \in quar : e.name = f.name}
        kept == IF old = {} THEN [note |-> 0, reason |-> ""]
                ELSE LET e == CHOOSE e \in old : TRUE
                     IN  [note |-> e.note, reason |-> e.reason]
    IN  [name |-> f.name, mtime |-> f.mtime, size |-> Len(f.content),
         note |-> IF "reason" \in faults THEN kept.note ELSE 1,
         reason |-> IF "reason" \in faults THEN kept.reason ELSE reason]

quarantine_with_reason(quar, f, reason, faults) ==
    {e \in quar : e.name # f.name} \cup {QuarantineEntry(quar, f, reason, faults)}

\* What a run of process_one_file leaves: the directories, the tables, how it
\* ended, the path the file had in processing, and whether the run goes on to
\* purge the quarantine and what enforce_quota told it.
Ended(inc, proc, quar, manifest, events, outcome, file_id, path, quota, purge) ==
    [inc |-> inc, proc |-> proc, quar |-> quar, manifest |-> manifest,
     events |-> events, outcome |-> outcome, file_id |-> file_id,
     path |-> path, quota |-> quota, purge |-> purge]

NoPath == [stem |-> "", suffix |-> "", stamp |-> 0]

\* The except block of process_one_file.  quarantine_with_reason is outside
\* any try: with the file already unlinked its rename and its copy2 both
\* raise FileNotFoundError, which leaves process_one_file.
IngestFailed(inc, proc, quar, manifest, events, f, file_id, exc, faults, now) ==
    IF f \notin proc
    THEN Ended(inc, proc, quar, manifest, events, "raised", file_id, f.name,
               "none", FALSE)
    ELSE Ended(inc, proc \ {f},
               quarantine_with_reason(quar, f, exc, faults),
               IF file_id # 0 /\ "mark_error" \notin faults
               THEN file_manifest_mark(manifest, file_id, "error", now)
               ELSE manifest,
               events, "quarantined", file_id, f.name, "none",
               "purge" \notin faults)

\* storage/quota.enforce_quota as process_one_file calls it: the database
\* size is the number of event rows, in model units.
WatcherQuota(events, now) ==
    LET size == Cardinality(events)
        del == IF size <= WatcherCfg.high THEN {}
               ELSE EnforceQuotaDeletes(events, [day |-> now, tod |-> 0], WatcherCfg)
    IN  [events |-> events \ del,
         ok |-> IF size <= WatcherCfg.high THEN "True"
                ELSE IF Cardinality(events \ del) <= WatcherCfg.low THEN "True"
                ELSE "False"]

\* Steps 3 to 5 of process_one_file on the moved file p: manifest row, event
\* rows, commit mark, unlink, quota.
IngestFile(inc, proc, quar, manifest, events, p, faults, now) ==
    IF "insert" \in faults \/ UniqueIndexViolated(manifest, sha256_file(p))
    THEN IngestFailed(inc, proc, quar, manifest, events, p, 0,
                      "Ingest error: insert", faults, now)
    ELSE
    LET n == Len(p.content)
        m1 == file_manifest_insert(manifest, p.name, sha256_file(p), n)
        file_id == Len(m1)
    IN  IF "events" \in faults /\ n > 0
        THEN IngestFailed(inc, proc, quar, m1,
                 events \cup OccurrenceRows(events, file_id, p.content, 1,
                                RowsBeforeLastFlush(n, WatcherCfg.batch_size)),
                 p, file_id, "Ingest error: events", faults, now)
        ELSE
        LET ev1 == events \cup OccurrenceRows(events, file_id, p.content, 1, n)
        IN  IF "mark" \in faults
            THEN IngestFailed(inc, proc, quar, m1, ev1, p, file_id,
                              "Ingest error: mark", faults, now)
            ELSE
            LET m2 == file_manifest_mark(m1, file_id, "committed", now)
                proc2 == IF "unlink" \in faults THEN proc ELSE proc \ {p}
                m3 == IF "unlink" \in faults THEN m2
                      ELSE file_manifest_mark(m2, file_id, "deleted", now)
            IN  IF "quota" \in faults
                THEN IngestFailed(inc, proc2, quar, m3, ev1, p, file_id,
                                  "Ingest error: quota", faults, now)
                ELSE LET q == WatcherQuota(ev1, now)
                     IN  Ended(inc, proc2, quar, m3, q.events, "committed",
                               file_id, p.name, q.ok, FALSE)

\* process_one_file(cfg, conn, incoming_file), up to the purge its except
\* block ends with.
process_one_file(inc, proc, quar, manifest, events, name, faults, now) ==
    IF ~(\E f \in inc : f.name = name)
    THEN Ended(inc, proc, quar, manifest, events, "absent", 0, NoPath, "none", FALSE)
    ELSE IF Lower(name.suffix) \in IGNORE_SUFFIXES
    THEN Ended(inc, proc, quar, manifest, events, "ignored", 0, NoPath, "none", FALSE)
    ELSE IF "move" \in faults
    THEN Ended(inc, proc, quar, manifest, events, "not-moved", 0, NoPath, "none", FALSE)
    ELSE
    LET f == CHOOSE f \in inc : f.name = name
        target == MoveTarget(proc, f, now)
        p == [f EXCEPT !.name = target]
        inc1 == SourceAfterMove(inc, f)
        proc1 == {g \in proc : g.name # target} \cup {p}
    IN  IF "hash" \in faults
        THEN IngestFailed(inc1, proc1, quar, manifest, events, p, 0,
                          "Ingest error: hash", faults, now)
        ELSE IF file_manifest_has_sha(manifest, sha256_file(p))
        THEN Ended(inc1, IF "unlink" \in faults THEN proc1 ELSE proc1 \ {p},
                   quar, manifest, events, "duplicate", 0, p.name, "none", FALSE)
        ELSE IngestFile(inc1, proc1, quar, manifest, events, p, faults, now)

(***************************************************************************)
(* SpecWatcher: files are dropped into the incoming directory and the      *)
(* observer thread handles one event after the other; the steps of a run   *)
(* that raise are one of FaultSets.                                        *)
(***************************************************************************)
MaxSubmits == 2
MaxRuns == 2
FirstNow == 3

WatchNames ==
    {[stem |-> "a", suffix |-> ".log", stamp |-> 0],
     [stem |-> "b", suffix |-> ".log", stamp |-> 0],
     [stem |-> "a", suffix |-> ".TMP", stamp |-> 0]}

WatchContents == {<<>>, <<"x", "y", "x">>}

\* a dropped file is one retention period old at the first event
WatchMtimes == {FirstNow - WatcherCfg.q_retention}

\* The steps that raise in one run: at most one step of the body, or the
\* unlink (whose failure is only logged) and enforce_quota after it; and, when
\* the body fails with the file still in processing, at most one guarded step
\* of the except block.
ToExceptBlock ==
    {{"hash"}, {"insert"}, {"events"}, {"mark"}, {"unlink", "quota"}}

FaultSets ==
    {{}} \cup {{p} : p \in TryFaults} \cup ToExceptBlock
    \cup {T \cup {e} : T \in ToExceptBlock, e \in ExceptFaults}

\* The failures of the body with the file in processing and nothing else
\* failing: hashing, the manifest insert, a line or a batch insert.
IngestErrors == {{"hash"}, {"insert"}, {"events"}}

NoRun ==
    [name |-> NoPath, outcome |-> "none", file_id |-> 0,
     path |-> NoPath, content |-> <<>>, quota |-> "none", known |-> FALSE,
     rows |-> 0, records |-> 0, escaped |-> FALSE, purged |-> FALSE]

WatcherIdle ==
    /\ wIncoming = {} /\ wProcessing = {} /\ wQuarantine = {}
    /\ wManifest = <<>> /\ wEvents = {} /\ wNow = 0 /\ wSubmitted = 0
    /\ wFaulted = FALSE /\ wMoved = 0 /\ wDown = FALSE /\ wBoot = {}
    /\ wLast = NoRun

WatcherInit ==
    /\ wIncoming = {} /\ wProcessing = {} /\ wQuarantine = {}
    /\ wManifest = <<>> /\ wEvents = {} /\ wNow = FirstNow /\ wSubmitted = 0
    /\ wFaulted = FALSE /\ wMoved = 0 /\ wDown = FALSE /\ wBoot = {}
    /\ wLast = NoRun

\* A writer drops a file into the incoming directory.
Submit(name, content, mtime) ==
    /\ wSubmitted < MaxSubmits
    /\ ~(\E f \in wIncoming : f.name = name)
    /\ wIncoming' = wIncoming \cup {[name |-> name, content |-> content, mtime |-> mtime]}
    /\ wSubmitted' = wSubmitted + 1
    /\ UNCHANGED <<wProcessing, wQuarantine, wManifest, wEvents, wNow, wFaulted,
                   wMoved, wDown, wBoot, wLast>>

\* The outcomes of process_one_file in which move_atomic has moved the file.
MovedOutcomes == {"duplicate", "committed", "quarantined", "raised"}

\* One event of the observer thread for the path watch_dir/name: the handler
\* calls process_one_file, the quarantine purge of its except block included.
\* on_moved and on_modified catch what process_one_file raises; on_created
\* does not, so there the exception reaches the observer thread.
Dispatch(name, faults, catches) ==
    /\ ~wDown
    /\ wNow < FirstNow + MaxRuns
    /\ LET r == process_one_file(wIncoming, wProcessing, wQuarantine, wManifest,
                                 wEvents, name, faults, wNow)
           qcfg == [retention |-> WatcherCfg.q_retention,
                    max_bytes |-> WatcherCfg.max_bytes]
           aged == AfterAgePurge(r.quar, wNow, qcfg, {})
           content == IF \E f \in wIncoming : f.name = name
                      THEN (CHOOSE f \in wIncoming : f.name = name).content
                      ELSE <<>>
       IN  /\ wIncoming' = r.inc
           /\ wProcessing' = r.proc
           /\ wManifest' = r.manifest
           /\ wEvents' = r.events
           /\ IF r.purge
              THEN \E ord \in MtimeOrders(aged) :
                     wQuarantine' = AfterCapPurge(aged, qcfg, {}, ord)
              ELSE wQuarantine' = r.quar
           /\ wMoved' = IF r.outcome \in MovedOutcomes THEN wMoved + 1 ELSE wMoved
           /\ wLast' = [name |-> name, outcome |-> r.outcome,
                        file_id |-> r.file_id, path |-> r.path,
                        content |-> content, quota |-> r.quota,
                        known |-> \E i \in DOMAIN wManifest :
                                     wManifest[i].sha256 = SHA256(content),
                        rows |-> Cardinality(wEvents),
                        records |-> Len(wManifest),
                        escaped |-> (r.outcome = "raised" /\ ~catches),
                        purged |-> r.purge]
    /\ wNow' = wNow + 1
    /\ wFaulted' = (wFaulted \/ faults # {})
    /\ UNCHANGED <<wSubmitted, wDown, wBoot>>

\* IncomingHandler.on_created(FileCreatedEvent(watch_dir/name))
on_created(name, faults) == Dispatch(name, faults, FALSE)

\* IncomingHandler.on_moved(FileMovedEvent(..., watch_dir/name)): the
\* destination is a file of the watched directory
on_moved(name, faults) == Dispatch(name, faults, TRUE)

\* IncomingHandler.on_modified(FileModifiedEvent(watch_dir/name)): the files
\* of the model are all smaller than 1,000,000 bytes; the stat of a path that
\* is gone raises FileNotFoundError, which the handler drops as
\* process_one_file drops the path
on_modified(name, faults) == Dispatch(name, faults, TRUE)

(***************************************************************************)
(* SpecRestart: the watcher process can be killed while process_one_file   *)
(* runs (the observer is a daemon thread in API mode) and is started       *)
(* again by main or start_watcher.  Events that arrive are handled, and a  *)
(* process that is down is started: weak fairness of every step.           *)
(***************************************************************************)
\* the places where the kill falls: after move_atomic and before anything is
\* committed (the manifest INSERT is rolled back), or after the commit that
\* follows the first full batch (the manifest row, status 'processing', and
\* the rows of that batch are committed)
InterruptPoints == {"moved", "flushed"}

\* the process dies while process_one_file handles watch_dir/name
Interrupted(name, point) ==
    /\ ~wDown
    /\ wNow < FirstNow + MaxRuns
    /\ \E f \in wIncoming :
         /\ f.name = name
         /\ Lower(name.suffix) \notin IGNORE_SUFFIXES
         /\ LET target == MoveTarget(wProcessing, f, wNow)
                p == [f EXCEPT !.name = target]
                m1 == file_manifest_insert(wManifest, p.name, sha256_file(p),
                                           Len(p.content))
            IN  /\ wIncoming' = SourceAfterMove(wIncoming, f)
                /\ wProcessing' = {g \in wProcessing : g.name # target} \cup {p}
                /\ IF point = "flushed"
                   THEN /\ Len(p.content) >= WatcherCfg.batch_size
                        /\ ~file_manifest_has_sha(wManifest, sha256_file(p))
                        /\ wManifest' = m1
                        /\ wEvents' = wEvents \cup
                               OccurrenceRows(wEvents, Len(m1), p.content, 1,
                                              WatcherCfg.batch_size)
                   ELSE UNCHANGED <<wManifest, wEvents>>
                /\ wLast' = [NoRun EXCEPT !.name = name, !.outcome = "interrupted",
                                          !.path = target, !.content = f.content]
    /\ wMoved' = wMoved + 1
    /\ wNow' = wNow + 1
    /\ wDown' = TRUE
    /\ UNCHANGED <<wQuarantine, wSubmitted, wFaulted, wBoot>>

\* main / start_watcher: ensure_dirs, purge_quarantine, connect,
\* ensure_ingest_schema, then the observer is scheduled on watch_dir.  Neither
\* the processing directory nor the incoming directory is listed.
Restart ==
    /\ wDown
    /\ LET qcfg == [retention |-> WatcherCfg.q_retention,
                    max_bytes |-> WatcherCfg.max_bytes]
           aged == AfterAgePurge(wQuarantine, wNow, qcfg, {})
       IN  \E ord \in MtimeOrders(aged) :
             wQuarantine' = AfterCapPurge(aged, qcfg, {}, ord)
    /\ wDown' = FALSE
    /\ wBoot' = wProcessing
    /\ UNCHANGED <<wIncoming, wProcessing, wManifest, wEvents, wNow, wSubmitted,
                   wFaulted, wMoved, wLast>>

(***************************************************************************)
(* The sink: POST /ingest/batch (api/main.py).  A batch is a sequence of   *)
(* normalized events; the client supplies each event's content_hash.  An   *)
(* event is stored with INSERT OR IGNORE under the unique index            *)
(* uq_norm_hash; an event whose insert raises (a line_number beyond 64     *)
(* bits cannot be bound) is skipped.  A failure of the connection or of    *)
(* the commit rolls the whole call back and answers HTTP 500.              *)
(***************************************************************************)
VARIABLES
    sStore,      \* the rows of normalized_events, in id order
    sBatch,      \* the batch of the latest delivery
    sResp,       \* the response of the latest delivery
    sBefore,     \* the rows before the latest delivery
    sFirst,      \* the first batch that was delivered with an ok response
    sRepeat,     \* the latest delivery delivered sFirst again
    sCalls       \* how many deliveries were made

sinkVars == <<sStore, sBatch, sResp, sBefore, sFirst, sRepeat, sCalls>>

MaxBatchLen == 2
MaxDeliveries == 2

\* two events with different hashes, one with the hash of the first and
\* another message, and one whose insert raises
SinkEvents ==
    {[content_hash |-> "h1", message |-> "m1", bad |-> FALSE],
     [content_hash |-> "h2", message |-> "m1", bad |-> FALSE],
     [content_hash |-> "h1", message |-> "m2", bad |-> FALSE],
     [content_hash |-> "h2", message |-> "m2", bad |-> TRUE]}
SinkBatches ==
    UNION {[1..n -> SinkEvents] : n \in 0..MaxBatchLen}

\* mutant of uq_norm_hash: the table has no unique index on content_hash
uq_norm_hash_absent(store, hash) == FALSE

\* CREATE UNIQUE INDEX uq_norm_hash ON normalized_events (content_hash):
\* whether a row with this hash conflicts with a stored one
uq_norm_hash(store, hash) ==
    \E i \in 1..Len(store) : store[i].content_hash = hash

\* one cur.execute("INSERT OR IGNORE ...") of the loop, with its rowcount;
\* rowcount "raise" is the insert that raised and was skipped
InsertOrIgnore(store, ev) ==
    IF ev.bad THEN [store |-> store, rowcount |-> -1]
    ELSE IF uq_norm_hash(store, ev.content_hash)
         THEN [store |-> store, rowcount |-> 0]
    ELSE [store |-> Append(store, [id |-> Len(store) + 1,
                                   content_hash |-> ev.content_hash,
                                   message |-> ev.message]),
          rowcount |-> 1]

\* the for loop of ingest_batch from event i on: the rows and the count
RECURSIVE InsertEvents(_, _, _, _)
InsertEvents(store, events, i, inserted) ==
    IF i > Len(events) THEN [store |-> store, inserted |-> inserted]
    ELSE LET r == InsertOrIgnore(store, events[i])
         IN  InsertEvents(r.store, events, i + 1,
                          IF r.rowcount = -1 THEN inserted
                          ELSE inserted + r.rowcount)

NoResponse == [ok |-> "none", inserted |-> 0, received |-> 0]

SinkIdle ==
    /\ sStore = <<>>
    /\ sBatch = <<>>
    /\ sResp = NoResponse
    /\ sBefore = <<>>
    /\ sFirst = <<>>
    /\ sRepeat = FALSE
    /\ sCalls = 0

SinkInit == SinkIdle

\* POST /ingest/batch with this payload; dbError: get_conn or the commit
\* raises, the transaction is rolled back and the answer is HTTP 500
ingest_batch(batch, dbError) ==
    /\ sCalls < MaxDeliveries
    /\ LET r == InsertEvents(sStore, batch, 1, 0)
           ok == ~dbError
           hadFirst == sFirst # <<>>
       IN  /\ sStore' = IF ok THEN r.store ELSE sStore
           /\ sResp' = IF ok
                       THEN [ok |-> "True", inserted |-> r.inserted,
                             received |-> Len(batch)]
                       ELSE [ok |-> "raise", inserted |-> 0, received |-> 0]
           /\ sFirst' = IF ok /\ ~hadFirst THEN batch ELSE sFirst
           /\ sRepeat' = (hadFirst /\ batch = sFirst)
    /\ sBatch' = batch
    /\ sBefore' = sStore
    /\ sCalls' = sCalls + 1

(***************************************************************************)
(* The store connection and _DB_LOCK (scripts/file_watcher.py,             *)
(* storage/quota.py).  The observer thread handles one event: the store    *)
(* operations of process_one_file, each either inside `with _DB_LOCK` or   *)
(* not, as the code has it.  Another thread runs stop_watcher: it stops    *)
(* the observer, joins it for at most five seconds and closes the          *)
(* connection.                                                             *)
(***************************************************************************)
VARIABLES
    lkOps,       \* the store operations of the event being handled, in order
    lkI,         \* the operation the observer thread is at
    lkPhase,     \* "start", "ready" (lock acquired), "busy" (the operation is
                 \* running on the connection), "finished" (lock to release)
    lkOwner,     \* the thread that holds _DB_LOCK, or "none"
    lkStop,      \* stop_watcher: "running", "joining", "closing", "closed"
    lkOverlap    \* two threads operated on the connection at the same time

lockVars == <<lkOps, lkI, lkPhase, lkOwner, lkStop, lkOverlap>>

MaxLockLines == 3

\* an operation on the connection and whether its call site holds _DB_LOCK
StoreOp(name, locked) == [name |-> name, locked |-> locked]

\* Step 4 of process_one_file on a file of n lines: insert_occurrence_batch
\* takes the lock for its executemany, the conn.commit() after it is issued
\* by process_one_file itself, outside the lock
RECURSIVE BatchOps(_)
BatchOps(n) ==
    IF n <= 0 THEN <<>>
    ELSE <<StoreOp("executemany", TRUE), StoreOp("commit", FALSE)>>
         \o BatchOps(n - WatcherCfg.batch_size)

\* enforce_quota: nothing on the connection at or below the high watermark,
\* else cur.execute(DELETE) and conn.commit(), neither under the lock
QuotaOps(over) ==
    IF over
    THEN <<StoreOp("quota_delete", FALSE), StoreOp("quota_commit", FALSE)>>
    ELSE <<>>

\* the store operations of process_one_file for a moved file of n lines
StoreOps(n, dup, over) ==
    <<StoreOp("file_manifest_has_sha", TRUE)>>
    \o (IF dup THEN <<>>
        ELSE <<StoreOp("file_manifest_insert", TRUE)>>
             \o BatchOps(n)
             \o <<StoreOp("file_manifest_mark_committed", TRUE),
                  StoreOp("file_manifest_mark_deleted", TRUE)>>
             \o QuotaOps(over))

\* an operation on the closed connection raises ProgrammingError: the except
\* block of process_one_file marks the record error, if there is one
AfterRaise(ops, i) ==
    SubSeq(ops, 1, i)
    \o (IF i >= 2 /\ ops[i].name # "file_manifest_mark_error"
        THEN <<StoreOp("file_manifest_mark_error", TRUE)>> ELSE <<>>)

LockIdle ==
    /\ lkOps = <<>> /\ lkI = 0 /\ lkPhase = "start" /\ lkOwner = "none"
    /\ lkStop = "running" /\ lkOverlap = FALSE

\* the observer thread is about to handle an event for a file that it moves
LockInit ==
    /\ \E n \in 0..MaxLockLines, dup \in BOOLEAN, over \in BOOLEAN :
         lkOps = StoreOps(n, dup, over)
    /\ lkI = 1 /\ lkPhase = "start" /\ lkOwner = "none"
    /\ lkStop = "running" /\ lkOverlap = FALSE

\* `with _DB_LOCK:` entered by the observer thread
Acquire ==
    /\ lkI \in DOMAIN lkOps /\ lkPhase = "start" /\ lkOps[lkI].locked
    /\ lkOwner = "none"
    /\ lkOwner' = "observer" /\ lkPhase' = "ready"
    /\ UNCHANGED <<lkOps, lkI, lkStop, lkOverlap>>

\* the observer thread calls into the connection
BeginOp ==
    /\ lkI \in DOMAIN lkOps
    /\ \/ lkPhase = "ready"
       \/ lkPhase = "start" /\ ~lkOps[lkI].locked
    /\ lkPhase' = "busy"
    /\ UNCHANGED <<lkOps, lkI, lkOwner, lkStop, lkOverlap>>

\* the call returns, or raises because the connection was closed
EndOp ==
    /\ lkI \in DOMAIN lkOps /\ lkPhase = "busy"
    /\ lkOps' = IF lkStop = "closed" THEN AfterRaise(lkOps, lkI) ELSE lkOps
    /\ IF lkOps[lkI].locked
       THEN lkPhase' = "finished" /\ lkI' = lkI
       ELSE lkPhase' = "start" /\ lkI' = lkI + 1
    /\ UNCHANGED <<lkOwner, lkStop, lkOverlap>>

\* the `with _DB_LOCK:` block is left
Release ==
    /\ lkPhase = "finished"
    /\ lkOwner' = "none" /\ lkPhase' = "start" /\ lkI' = lkI + 1
    /\ UNCHANGED <<lkOps, lkStop, lkOverlap>>

\* stop_watcher: _observer.stop()
observer_stop ==
    /\ lkStop = "running"
    /\ lkStop' = "joining"
    /\ UNCHANGED <<lkOps, lkI, lkPhase, lkOwner, lkOverlap>>

\* stop_watcher: _observer.join(timeout=5) returns, the handler having
\* returned or the five seconds being over
observer_join(timedOut) ==
    /\ lkStop = "joining"
    /\ timedOut \/ lkI > Len(lkOps)
    /\ lkStop' = "closing"
    /\ UNCHANGED <<lkOps, lkI, lkPhase, lkOwner, lkOverlap>>

\* stop_watcher: _conn.close(), without _DB_LOCK
conn_close ==
    /\ lkStop = "closing"
    /\ lkStop' = "closed"
    /\ lkOverlap' = (lkOverlap \/ lkPhase = "busy")
    /\ UNCHANGED <<lkOps, lkI, lkPhase, lkOwner>>

(***************************************************************************)
(* The stability wait and the move of process_one_file, step by step, for  *)
(* one discovered file: the observer thread samples the file's size while  *)
(* a writer may still change or remove the file.                           *)
(***************************************************************************)
VARIABLES
    stExists,    \* the file is in the incoming directory
    stSize,      \* its size there
    stPc,        \* where process_one_file is
    stLast,      \* wait_until_stable: last
    stStable,    \* wait_until_stable: stable
    stI,         \* wait_until_stable: iterations of the for loop begun
    stRet,       \* what wait_until_stable returned
    stTries,     \* move_atomic: rename attempts made
    stProc,      \* the sizes of the files in the processing directory
    stOutcome,   \* how process_one_file ended
    stEqual,     \* history: length of the last run of equal size readings
    stVanished   \* history: the file disappeared during the stability wait

stableVars ==
    <<stExists, stSize, stPc, stLast, stStable, stI, stRet, stTries, stProc,
      stOutcome, stEqual, stVanished>>

\* process_one_file calls wait_until_stable(incoming_file, checks=3, ...)
checks == 3

\* move_atomic(src, dst_dir, retries=30, ...)
retries == 30

MaxFileSize == 2

StableIdle ==
    /\ stExists = FALSE /\ stSize = 0 /\ stPc = "idle" /\ stLast = 0
    /\ stStable = 0 /\ stI = 0 /\ stRet = "none" /\ stTries = 0
    /\ stProc = {} /\ stOutcome = "none" /\ stEqual = 0
    /\ stVanished = FALSE

\* A file has been dropped and the handler is about to call process_one_file.
StableInit ==
    /\ stExists = TRUE /\ stSize \in 1..MaxFileSize /\ stPc = "is_file"
    /\ stLast = 0 /\ stStable = 0 /\ stI = 0 /\ stRet = "none"
    /\ stTries = 0 /\ stProc = {} /\ stOutcome = "none" /\ stEqual = 0
    /\ stVanished = FALSE

\* The writer changes the size of the file it is still writing.
WriterWrites(size) ==
    /\ stExists /\ size # stSize
    /\ stPc \in {"is_file", "stat", "sample", "move"}
    /\ stSize' = size
    /\ UNCHANGED <<stExists, stPc, stLast, stStable, stI, stRet, stTries,
                   stProc, stOutcome, stEqual, stVanished>>

\* The file is removed or renamed away from the incoming directory.
FileVanishes ==
    /\ stExists
    /\ stPc \in {"is_file", "stat", "sample", "move"}
    /\ stExists' = FALSE
    /\ stVanished' = (stVanished \/ stPc \in {"stat", "sample"})
    /\ UNCHANGED <<stSize, stPc, stLast, stStable, stI, stRet, stTries,
                   stProc, stOutcome, stEqual>>

\* process_one_file: if not incoming_file.is_file(): return
IsFile ==
    /\ stPc = "is_file"
    /\ IF stExists
       THEN stPc' = "stat" /\ UNCHANGED stOutcome
       ELSE stPc' = "done" /\ stOutcome' = "absent"
    /\ UNCHANGED <<stExists, stSize, stLast, stStable, stI, stRet, stTries,
                   stProc, stEqual, stVanished>>

\* wait_until_stable: the first path.stat(); FileNotFoundError returns False
\* and process_one_file, which does not look at the result, goes on to move.
FirstStat ==
    /\ stPc = "stat"
    /\ IF stExists
       THEN /\ stLast' = stSize /\ stEqual' = 1 /\ stPc' = "sample"
            /\ UNCHANGED stRet
       ELSE /\ stRet' = "False" /\ stPc' = "move"
            /\ UNCHANGED <<stLast, stEqual>>
    /\ UNCHANGED <<stExists, stSize, stStable, stI, stTries, stProc,
                   stOutcome, stVanished>>

\* wait_until_stable: one iteration of `for _ in range(checks * 4)`, the
\* sleep and the stat; the loop running out returns False.
Sample ==
    /\ stPc = "sample"
    /\ stI' = stI + 1
    /\ IF ~stExists
       THEN /\ stRet' = "False" /\ stPc' = "move"
            /\ UNCHANGED <<stLast, stStable, stEqual>>
       ELSE IF stSize = stLast
       THEN /\ stStable' = stStable + 1
            /\ stEqual' = stEqual + 1
            /\ UNCHANGED stLast
            /\ IF stStable + 1 >= checks
               THEN stRet' = "True" /\ stPc' = "move"
               ELSE IF stI + 1 = checks * 4
               THEN stRet' = "False" /\ stPc' = "move"
               ELSE UNCHANGED <<stRet, stPc>>
       ELSE /\ stStable' = 0 /\ stLast' = stSize /\ stEqual' = 1
            /\ IF stI + 1 = checks * 4
               THEN stRet' = "False" /\ stPc' = "move"
               ELSE UNCHANGED <<stRet, stPc>>
    /\ UNCHANGED <<stExists, stSize, stTries, stProc, stOutcome, stVanished>>

\* move_atomic: one pass of `for _ in range(retries)`.  src.rename(target)
\* moves the file; PermissionError (the file is locked) and every other
\* OSError, FileNotFoundError among them, sleep and go round again.
Rename(locked) ==
    /\ stPc = "move"
    /\ stTries < retries
    /\ IF stExists /\ ~locked
       THEN /\ stProc' = stProc \cup {stSize}
            /\ stExists' = FALSE
            /\ stPc' = "moved"
            /\ UNCHANGED stTries
       ELSE /\ stTries' = stTries + 1
            /\ UNCHANGED <<stProc, stExists, stPc>>
    /\ UNCHANGED <<stSize, stLast, stStable, stI, stRet, stOutcome, stEqual,
                   stVanished>>

\* mutant of CopyFallback: the target is created before the source is opened
CopyFallback_targetFirst(locked) ==
    /\ stPc = "move"
    /\ stTries = retries
    /\ stProc' = stProc \cup {IF stExists THEN stSize ELSE 0}
    /\ stExists' = (stExists /\ locked)
    /\ IF stExists
       THEN stPc' = "moved" /\ UNCHANGED stOutcome
       ELSE stPc' = "done" /\ stOutcome' = "not-moved"
    /\ UNCHANGED <<stSize, stLast, stStable, stI, stRet, stTries, stEqual,
                   stVanished>>

\* move_atomic: the fallback after the last retry, shutil.copy2 and
\* src.unlink(), whose failure is passed over.  copy2 opens the source first:
\* with the source gone it raises FileNotFoundError, which process_one_file
\* catches, logs, and returns.
CopyFallback(locked) ==
    /\ stPc = "move"
    /\ stTries = retries
    /\ IF stExists
       THEN /\ stProc' = stProc \cup {stSize}
            /\ stExists' = locked
            /\ stPc' = "moved"
            /\ UNCHANGED stOutcome
       ELSE /\ stPc' = "done" /\ stOutcome' = "not-moved"
            /\ UNCHANGED <<stProc, stExists>>
    /\ UNCHANGED <<stSize, stLast, stStable, stI, stRet, stTries, stEqual,
                   stVanished>>

\* How process_one_file ends for a file it has moved.
MovedEndings == {"duplicate", "committed", "quarantined"}

\* The rest of process_one_file on the moved file.
IngestMoved(outcome) ==
    /\ stPc = "moved"
    /\ stPc' = "done"
    /\ stOutcome' = outcome
    /\ UNCHANGED <<stExists, stSize, stLast, stStable, stI, stRet, stTries,
                   stProc, stEqual, stVanished>>

(***************************************************************************)
(* Step 4 of process_one_file, line by line: the file is read with         *)
(* readline, every line becomes a row of the in-memory batch `rows`, and   *)
(* the batch is inserted and committed when it is full and at end of file. *)
(* A stored row is known by its line number; the rows are kept in the      *)
(* order of their AUTOINCREMENT ids.                                       *)
(***************************************************************************)
VARIABLES
    smBatchSize, \* cfg.batch_size
    smLines,     \* the number of lines of the file
    smLineNo,    \* line_no
    smRows,      \* rows: the line numbers of the batch in memory
    smStored,    \* the line numbers of the file's rows in event_occurrence
    smPc         \* "readline", "check", "eof", "committed"

streamVars == <<smBatchSize, smLines, smLineNo, smRows, smStored, smPc>>

MaxStreamBatch == 3
MaxStreamLines == 4

StreamIdle ==
    /\ smBatchSize = 0 /\ smLines = 0 /\ smLineNo = 0
    /\ smRows = <<>> /\ smStored = <<>> /\ smPc = "idle"

\* IngestConfig.load takes batch_size as int(raw.get("batch_size", 1000)) and
\* checks nothing about it.
StreamInit ==
    /\ smBatchSize \in 0..MaxStreamBatch
    /\ smLines \in 0..MaxStreamLines
    /\ smLineNo = 0 /\ smRows = <<>> /\ smStored = <<>>
    /\ smPc = "readline"

\* chunk = f.readline(): at end of file the loop is left, else the line is
\* counted and its row appended to the batch.
ReadLine ==
    /\ smPc = "readline"
    /\ IF smLineNo = smLines
       THEN /\ smPc' = "eof"
            /\ UNCHANGED <<smLineNo, smRows>>
       ELSE /\ smLineNo' = smLineNo + 1
            /\ smRows' = Append(smRows, smLineNo + 1)
            /\ smPc' = "check"
    /\ UNCHANGED <<smBatchSize, smLines, smStored>>

\* A bug: the batch flushed only once it has grown past batch_size.
FlushFullBatch_late ==
    /\ smPc = "check"
    /\ IF Len(smRows) > smBatchSize
       THEN smStored' = smStored \o smRows /\ smRows' = <<>>
       ELSE UNCHANGED <<smStored, smRows>>
    /\ smPc' = "readline"
    /\ UNCHANGED <<smBatchSize, smLines, smLineNo>>

\* if len(rows) >= cfg.batch_size: insert_occurrence_batch, commit,
\* rows.clear()
FlushFullBatch ==
    /\ smPc = "check"
    /\ IF Len(smRows) >= smBatchSize
       THEN smStored' = smStored \o smRows /\ smRows' = <<>>
       ELSE UNCHANGED <<smStored, smRows>>
    /\ smPc' = "readline"
    /\ UNCHANGED <<smBatchSize, smLines, smLineNo>>

\* After the loop: if rows: insert_occurrence_batch, commit (the list is not
\* cleared); then file_manifest_mark(conn, file_id, "committed").
FlushRemainder ==
    /\ smPc = "eof"
    /\ smStored' = smStored \o smRows
    /\ smPc' = "committed"
    /\ UNCHANGED <<smBatchSize, smLines, smLineNo, smRows>>

(***************************************************************************)
(* storage/sqlite_backend.py: SQLiteBackend.write_batch and the pruning    *)
(* loop it starts.  Sizes are in tenths of a megabyte: the database file   *)
(* is its schema pages, one unit per stored row and its free pages.  A     *)
(* DELETE leaves the pages of the deleted rows in the file as free pages   *)
(* (SQLite's default, auto_vacuum = NONE: the backend sets no pragma); a   *)
(* file created elsewhere with auto_vacuum = FULL gives them back.         *)
(***************************************************************************)
VARIABLES
    bkCfg,       \* max: max_db_size_mb; base: the schema pages of the file;
                 \* auto_vacuum: the file was created with auto_vacuum = FULL
    bkRows,      \* the number of rows of the events table
    bkFree,      \* the free pages of the file
    bkPc         \* "idle", "pruning" (inside _prune_oldest_rows), "returned"

backendVars == <<bkCfg, bkRows, bkFree, bkPc>>

MaxDbSize == 3
MaxEvents == 3
MaxWrite == 2
PruneChunk == 2

BackendIdle ==
    bkCfg = <<>> /\ bkRows = 0 /\ bkFree = 0 /\ bkPc = "off"

\* SQLiteBackend(db_path, max_db_size_mb) connected to a database file that
\* may hold rows and free pages already.
BackendInit ==
    /\ bkCfg \in [max : 0..MaxDbSize, base : 1..2, auto_vacuum : BOOLEAN]
    /\ bkRows \in 0..MaxEvents
    /\ bkFree \in (IF bkCfg.auto_vacuum THEN {0} ELSE 0..1)
    /\ bkPc = "idle"

\* _db_size_mb: os.path.getsize(db_path)
db_size_mb(cfg, rows, free) == cfg.base + rows + free

\* write_batch(events): INSERT and commit, the new rows taking the free pages
\* first; then _prune_oldest_rows() when the file is larger than
\* max_db_size_mb.
write_batch(n) ==
    /\ bkPc \in {"idle", "returned"}
    /\ bkRows + n <= MaxEvents
    /\ bkRows' = bkRows + n
    /\ bkFree' = IF bkFree > n THEN bkFree - n ELSE 0
    /\ bkPc' = IF db_size_mb(bkCfg, bkRows', bkFree') > bkCfg.max
               THEN "pruning" ELSE "returned"
    /\ UNCHANGED bkCfg

\* One test of `while self._db_size_mb() > target_size_mb` with target_size_mb
\* = max_db_size_mb * 0.9: the DELETE of the oldest rows (LIMIT 1000, scaled
\* to PruneChunk) and its commit, or the return.
prune_oldest_rows ==
    /\ bkPc = "pruning"
    /\ IF 10 * db_size_mb(bkCfg, bkRows, bkFree) > 9 * bkCfg.max
       THEN LET deleted == IF bkRows < PruneChunk THEN bkRows ELSE PruneChunk
            IN  /\ bkRows' = bkRows - deleted
                /\ bkFree' = IF bkCfg.auto_vacuum THEN 0 ELSE bkFree + deleted
                /\ bkPc' = "pruning"
       ELSE /\ bkPc' = "returned"
            /\ UNCHANGED <<bkRows, bkFree>>
    /\ UNCHANGED bkCfg

(***************************************************************************)
(* Specifications.                                                         *)
(***************************************************************************)
vars ==
    <<hashVars, selVars, parseVars, quotaVars, purgeVars, sinkVars
    , lockVars, stableVars, streamVars, backendVars, watchVars>>

HashNext ==
    \/ HashBoth
         /\ UNCHANGED <<selVars, parseVars, quotaVars, purgeVars, sinkVars, lockVars
                , stableVars, streamVars, backendVars, watchVars>>
HashStart ==
    HashInit /\ SelectIdle /\ ParseIdle /\ QuotaIdle /\ PurgeIdle
    /\ SinkIdle /\ LockIdle /\ StableIdle /\ StreamIdle /\ BackendIdle
    /\ WatcherIdle
SpecHash == HashStart /\ [][HashNext]_vars

SelNext ==
    \/ SelectCall
         /\ UNCHANGED <<hashVars, parseVars, quotaVars, purgeVars, sinkVars, lockVars
                , stableVars, streamVars, backendVars, watchVars>>
    \/ SelectOther
         /\ UNCHANGED <<hashVars, parseVars, quotaVars, purgeVars, sinkVars, lockVars
                , stableVars, streamVars, backendVars, watchVars>>
SelectStart ==
    SelectInit /\ HashIdle /\ ParseIdle /\ QuotaIdle
    /\ PurgeIdle /\ SinkIdle /\ LockIdle /\ StableIdle /\ StreamIdle
    /\ BackendIdle /\ WatcherIdle
SpecSelect == SelectStart /\ [][SelNext]_vars

ParseNext ==
    \/ ParseLine
         /\ UNCHANGED <<hashVars, selVars, quotaVars, purgeVars, sinkVars, lockVars
                , stableVars, streamVars, backendVars, watchVars>>
ParseStart ==
    ParseInit /\ HashIdle /\ SelectIdle /\ QuotaIdle
    /\ PurgeIdle /\ SinkIdle /\ LockIdle /\ StableIdle /\ StreamIdle
    /\ BackendIdle /\ WatcherIdle
SpecParse == ParseStart /\ [][ParseNext]_vars

QuotaNext ==
    \/ EnforceQuota
         /\ UNCHANGED <<hashVars, selVars, parseVars, purgeVars, sinkVars, lockVars
                , stableVars, streamVars, backendVars, watchVars>>
    \/ EnforceQuotaLoop
         /\ UNCHANGED <<hashVars, selVars, parseVars, purgeVars, sinkVars, lockVars
                , stableVars, streamVars, backendVars, watchVars>>
    \/ ingest
         /\ UNCHANGED <<hashVars, selVars, parseVars, purgeVars, sinkVars, lockVars
                , stableVars, streamVars, backendVars, watchVars>>
QuotaStart ==
    QuotaInit /\ HashIdle /\ SelectIdle /\ ParseIdle
    /\ PurgeIdle /\ SinkIdle /\ LockIdle /\ StableIdle /\ StreamIdle
    /\ BackendIdle /\ WatcherIdle
SpecQuota == QuotaStart /\ [][QuotaNext]_vars

PurgeNext ==
    \/ PurgeQuarantine
         /\ UNCHANGED <<hashVars, selVars, parseVars, quotaVars, sinkVars, lockVars
                , stableVars, streamVars, backendVars, watchVars>>
PurgeStart ==
    PurgeInit /\ HashIdle /\ SelectIdle /\ ParseIdle
    /\ QuotaIdle /\ SinkIdle /\ LockIdle /\ StableIdle /\ StreamIdle
    /\ BackendIdle /\ WatcherIdle
SpecPurge == PurgeStart /\ [][PurgeNext]_vars

SinkNext ==
    \/ \E batch \in SinkBatches, dbError \in BOOLEAN :
         ingest_batch(batch, dbError)
         /\ UNCHANGED <<hashVars, selVars, parseVars, quotaVars, purgeVars, lockVars
                , stableVars, streamVars, backendVars, watchVars>>
SinkStart ==
    SinkInit /\ HashIdle /\ SelectIdle /\ ParseIdle /\ QuotaIdle
    /\ PurgeIdle /\ LockIdle /\ StableIdle /\ StreamIdle /\ BackendIdle
    /\ WatcherIdle
SpecSink == SinkStart /\ [][SinkNext]_vars

LockNext ==
    \/ Acquire
         /\ UNCHANGED <<hashVars, selVars, parseVars, quotaVars, purgeVars, sinkVars
                , stableVars, streamVars, backendVars, watchVars>>
    \/ BeginOp
         /\ UNCHANGED <<hashVars, selVars, parseVars, quotaVars, purgeVars, sinkVars
                , stableVars, streamVars, backendVars, watchVars>>
    \/ EndOp
         /\ UNCHANGED <<hashVars, selVars, parseVars, quotaVars, purgeVars, sinkVars
                , stableVars, streamVars, backendVars, watchVars>>
    \/ Release
         /\ UNCHANGED <<hashVars, selVars, parseVars, quotaVars, purgeVars, sinkVars
                , stableVars, streamVars, backendVars, watchVars>>
    \/ observer_stop
         /\ UNCHANGED <<hashVars, selVars, parseVars, quotaVars, purgeVars, sinkVars
                , stableVars, streamVars, backendVars, watchVars>>
    \/ \E timedOut \in BOOLEAN :
         observer_join(timedOut)
         /\ UNCHANGED <<hashVars, selVars, parseVars, quotaVars, purgeVars, sinkVars
                , stableVars, streamVars, backendVars, watchVars>>
    \/ conn_close
         /\ UNCHANGED <<hashVars, selVars, parseVars, quotaVars, purgeVars, sinkVars
                , stableVars, streamVars, backendVars, watchVars>>
LockStart ==
    LockInit /\ HashIdle /\ SelectIdle /\ ParseIdle /\ QuotaIdle
    /\ PurgeIdle /\ SinkIdle /\ StableIdle /\ StreamIdle /\ BackendIdle
    /\ WatcherIdle
SpecLock == LockStart /\ [][LockNext]_vars

StableNext ==
    \/ \E size \in 1..MaxFileSize :
         WriterWrites(size)
         /\ UNCHANGED <<hashVars, selVars, parseVars, quotaVars, purgeVars, sinkVars
                , lockVars, streamVars, backendVars, watchVars>>
    \/ FileVanishes
         /\ UNCHANGED <<hashVars, selVars, parseVars, quotaVars, purgeVars, sinkVars
                , lockVars, streamVars, backendVars, watchVars>>
    \/ IsFile
         /\ UNCHANGED <<hashVars, selVars, parseVars, quotaVars, purgeVars, sinkVars
                , lockVars, streamVars, backendVars, watchVars>>
    \/ FirstStat
         /\ UNCHANGED <<hashVars, selVars, parseVars, quotaVars, purgeVars, sinkVars
                , lockVars, streamVars, backendVars, watchVars>>
    \/ Sample
         /\ UNCHANGED <<hashVars, selVars, parseVars, quotaVars, purgeVars, sinkVars
                , lockVars, streamVars, backendVars, watchVars>>
    \/ \E locked \in BOOLEAN :
         Rename(locked)
         /\ UNCHANGED <<hashVars, selVars, parseVars, quotaVars, purgeVars, sinkVars
                , lockVars, streamVars, backendVars, watchVars>>
    \/ \E locked \in BOOLEAN :
         CopyFallback(locked)
         /\ UNCHANGED <<hashVars, selVars, parseVars, quotaVars, purgeVars, sinkVars
                , lockVars, streamVars, backendVars, watchVars>>
    \/ \E outcome \in MovedEndings :
         IngestMoved(outcome)
         /\ UNCHANGED <<hashVars, selVars, parseVars, quotaVars, purgeVars, sinkVars
                , lockVars, streamVars, backendVars, watchVars>>
StableStart ==
    StableInit /\ HashIdle /\ SelectIdle /\ ParseIdle
    /\ QuotaIdle /\ PurgeIdle /\ SinkIdle /\ LockIdle /\ StreamIdle
    /\ BackendIdle /\ WatcherIdle
SpecStable == StableStart /\ [][StableNext]_vars

StreamNext ==
    \/ ReadLine
         /\ UNCHANGED <<hashVars, selVars, parseVars, quotaVars, purgeVars, sinkVars
                , lockVars, stableVars, backendVars, watchVars>>
    \/ FlushFullBatch
         /\ UNCHANGED <<hashVars, selVars, parseVars, quotaVars, purgeVars, sinkVars
                , lockVars, stableVars, backendVars, watchVars>>
    \/ FlushRemainder
         /\ UNCHANGED <<hashVars, selVars, parseVars, quotaVars, purgeVars, sinkVars
                , lockVars, stableVars, backendVars, watchVars>>
StreamStart ==
    StreamInit /\ HashIdle /\ SelectIdle /\ ParseIdle
    /\ QuotaIdle /\ PurgeIdle /\ SinkIdle /\ LockIdle /\ StableIdle
    /\ BackendIdle /\ WatcherIdle
SpecStream == StreamStart /\ [][StreamNext]_vars

BackendNext ==
    \/ \E n \in 0..MaxWrite :
         write_batch(n)
         /\ UNCHANGED <<hashVars, selVars, parseVars, quotaVars, purgeVars, sinkVars
                , lockVars, stableVars, streamVars, watchVars>>
    \/ prune_oldest_rows
         /\ UNCHANGED <<hashVars, selVars, parseVars, quotaVars, purgeVars, sinkVars
                , lockVars, stableVars, streamVars, watchVars>>
BackendStart ==
    BackendInit /\ HashIdle /\ SelectIdle /\ ParseIdle
    /\ QuotaIdle /\ PurgeIdle /\ SinkIdle /\ LockIdle /\ StableIdle
    /\ StreamIdle /\ WatcherIdle
SpecBackend == BackendStart /\ [][BackendNext]_vars

WatcherNext ==
    \/ \E name \in WatchNames, content \in WatchContents, mtime \in WatchMtimes :
         Submit(name, content, mtime)
         /\ UNCHANGED <<hashVars, selVars, parseVars, quotaVars, purgeVars, sinkVars
                , lockVars, stableVars, streamVars, backendVars>>
    \/ \E name \in WatchNames, faults \in FaultSets :
         on_created(name, faults)
         /\ UNCHANGED <<hashVars, selVars, parseVars, quotaVars, purgeVars, sinkVars
                , lockVars, stableVars, streamVars, backendVars>>
    \/ \E name \in WatchNames, faults \in FaultSets :
         on_moved(name, faults)
         /\ UNCHANGED <<hashVars, selVars, parseVars, quotaVars, purgeVars, sinkVars
                , lockVars, stableVars, streamVars, backendVars>>
    \/ \E name \in WatchNames, faults \in FaultSets :
         on_modified(name, faults)
         /\ UNCHANGED <<hashVars, selVars, parseVars, quotaVars, purgeVars, sinkVars
                , lockVars, stableVars, streamVars, backendVars>>
WatcherStart ==
    WatcherInit /\ HashIdle /\ SelectIdle /\ ParseIdle
    /\ QuotaIdle /\ PurgeIdle /\ SinkIdle /\ LockIdle /\ StableIdle
    /\ StreamIdle /\ BackendIdle
SpecWatcher == WatcherStart /\ [][WatcherNext]_vars

RestartNext ==
    \/ \E name \in WatchNames, content \in WatchContents, mtime \in WatchMtimes :
         Submit(name, content, mtime)
         /\ UNCHANGED <<hashVars, selVars, parseVars, quotaVars, purgeVars, sinkVars, lockVars
                        , stableVars, streamVars, backendVars>>
    \/ \E name \in WatchNames :
         on_created(name, {})
         /\ UNCHANGED <<hashVars, selVars, parseVars, quotaVars, purgeVars, sinkVars, lockVars
                        , stableVars, streamVars, backendVars>>
    \/ \E name \in WatchNames, point \in InterruptPoints :
         Interrupted(name, point)
         /\ UNCHANGED <<hashVars, selVars, parseVars, quotaVars, purgeVars, sinkVars, lockVars
                        , stableVars, streamVars, backendVars>>
    \/ Restart
         /\ UNCHANGED <<hashVars, selVars, parseVars, quotaVars, purgeVars, sinkVars, lockVars
                        , stableVars, streamVars, backendVars>>
SpecRestart == WatcherStart /\ [][RestartNext]_vars /\ WF_vars(RestartNext)
IngestErrorNext ==
    \/ \E name \in WatchNames, content \in WatchContents, mtime \in WatchMtimes :
         Submit(name, content, mtime)
         /\ UNCHANGED <<hashVars, selVars, parseVars, quotaVars, purgeVars, sinkVars, lockVars
                        , stableVars, streamVars, backendVars>>
    \/ \E name \in WatchNames :
         on_created(name, {})
         /\ UNCHANGED <<hashVars, selVars, parseVars, quotaVars, purgeVars, sinkVars, lockVars
                        , stableVars, streamVars, backendVars>>
    \/ \E name \in WatchNames, faults \in IngestErrors :
         on_modified(name, faults)
         /\ UNCHANGED <<hashVars, selVars, parseVars, quotaVars, purgeVars, sinkVars, lockVars
                        , stableVars, streamVars, backendVars>>
SpecIngestError == WatcherStart /\ [][IngestErrorNext]_vars
\* The thread inside write_batch keeps running.
SpecBackendFair ==
    BackendStart /\ [][BackendNext]_vars /\ WF_vars(BackendNext)

(***************************************************************************)
(* Claims.                                                                 *)
(***************************************************************************)
\* The attrs of two events are the same mapping, whatever the insertion order.
SameAttrs(a, b) == Range(a) = Range(b)

SameHashedFields(e1, e2) ==
    /\ e1.source_path = e2.source_path
    /\ e1.event_time = e2.event_time
    /\ e1.level = e2.level
    /\ e1.message = e2.message
    /\ SameAttrs(e1.attrs, e2.attrs)

\* C6: two events that agree on source_path, event_time, level, message and
\* attrs (as a mapping) get the same content hash from normalize.content_hash
\* and the same row hash from the watcher, whatever their line_number,
\* source_type, raw_excerpt and attrs key order.
C6_HashOfFiveFields ==
    (hOut.done /\ SameHashedFields(hEv1, hEv2)) =>
        (hOut.n1 = hOut.n2 /\ hOut.w1 = hOut.w2)

\* Two events hashed that agree on the five fields and differ in line number,
\* source type and attrs key order.
C6_Witness ==
    /\ hOut.done
    /\ SameHashedFields(hEv1, hEv2)
    /\ hEv1.line_number # hEv2.line_number
    /\ hEv1.source_type # hEv2.source_type
    /\ hEv1.attrs # hEv2.attrs

\* C7: every call of a selection operation on the same input, with the same
\* registry, returns what its first call returned, whatever was sniffed in
\* between.
C7_SelectionDeterministic ==
    (selOp \in {"choose_parser", "best_parser", "sniff_file", "sniff_best_handler"}
       /\ selCalls >= 1) => selLast = selFirst

\* choose_parser called a second time after a CSV sample set the dialect of
\* the registered CSVParser.
C7_Witness ==
    /\ selOp = "choose_parser"
    /\ selCalls = 2 /\ selBetween
    /\ "csv" \in Range(pReg)
    /\ ~CsvSniffable(selIn.lines)
    /\ csvDialect = "sniffed"
    /\ selLast = "txt"

NoSniffAboveZero(reg, sample) ==
    \A i \in DOMAIN reg : HasSniff(reg[i]) => LogFileHandler_sniff(sample) = 0

C10_GetHandlerFallsBack ==
    (selOp = "get_handler_for" /\ selCalls >= 1) =>
        /\ selLast \in HandlerNames
        /\ (selIn.ext # "" /\ selIn.ext \notin Range(hReg)) => selLast = "raw"
        /\ (selIn.ext \in Range(hReg) /\ HasCanHandle(selIn.ext)
              /\ can_handle(selIn.ext, selIn) \in {"no", "raise"}) =>
               selLast = "raw"

\* A registered handler whose can_handle raised, answered by the raw handler.
C10_Witness ==
    /\ selOp = "get_handler_for" /\ selCalls >= 1
    /\ selIn.ext = "plugin" /\ "plugin" \in Range(hReg)
    /\ selIn.plugin = "raise"
    /\ selLast = "raw"

\* C8 as claimed: parse_line makes one event with source_type "jsonl" of every
\* line that holds a valid JSON object, and skips a blank or malformed line
\* without raising.
C8_JsonObjectYieldsEvent ==
    /\ (plOut # NotParsed /\ plLine.kind = "object") =>
           /\ plOut.kind = "event"
           /\ plOut.ev.source_type = "jsonl"
           /\ plOut.ev.line_number = plLineNo
    /\ (plOut # NotParsed /\ plLine.kind \in {"blank", "malformed"}) =>
           plOut.kind = "skip"

\* C3: every row quota enforcement (enforce_quota, enforce_quota_loop) has
\* deleted has a time earlier than now minus the minimum retention period,
\* whatever the store and the retention, also when the store is still above
\* the high watermark as enforcement returns.
C3_QuotaKeepsRetention ==
    \A r \in qDeleted :
        /\ LoopRowTime(r) # NullTime
        /\ TimeBefore(LoopRowTime(r), Cutoff(qNow, qCfg.retention))

\* Enforcement returned not-ok with the store above the high watermark, after
\* deleting an old row and keeping a row newer than the cutoff.
C3_Witness ==
    /\ qPc = "done" /\ qRet.ok = "False"
    /\ qSize > qCfg.high
    /\ qDeleted # {}
    /\ \E r \in qRows :
          r.time # NullTime /\ ~TimeBefore(r.time, Cutoff(qNow, qCfg.retention))

\* The names of the files a purge run removed, and whether a file is younger
\* than the retention period (its mtime is not before now minus retention).
PurgedNames == {f.name : f \in pBefore} \ {f.name : f \in pDir}
YoungFile(f) == f.mtime >= pNow - pCfg.retention

\* C4: purge_quarantine deletes a file younger than the retention period only
\* if the directory is over its size cap after the age purge and every file
\* older than it is deleted too (an older file stays only when its own unlink
\* raised); with the directory at or under the cap no young file is deleted.
C4_PurgeKeepsYoungFiles ==
    pPc = "done" =>
        /\ \A f \in pBefore :
             (YoungFile(f) /\ f.name \in PurgedNames) =>
                 /\ dir_size_bytes(pAfterAge) > pCfg.max_bytes
                 /\ \A g \in pBefore :
                      g.mtime < f.mtime =>
                          (g.name \in PurgedNames \/ g.name \in pFails)
        /\ dir_size_bytes(pAfterAge) <= pCfg.max_bytes =>
               \A f \in pBefore : YoungFile(f) => f \in pDir

\* A purge over the cap removed a young file and kept a younger one, with no
\* unlink failing.
C4_Witness ==
    /\ pPc = "done" /\ pFails = {}
    /\ \E f, g \in pBefore :
          /\ YoungFile(f) /\ f.name \in PurgedNames
          /\ g.mtime > f.mtime /\ g \in pDir

\* The FileRecords holding the digest of the file the last run handled.
RecordsOfLast ==
    {i \in DOMAIN wManifest : wManifest[i].sha256 = SHA256(wLast.content)}

\* The last run moved a file into processing whose digest the manifest held.
SecondSubmission ==
    /\ wLast.outcome \notin {"none", "absent", "ignored", "not-moved"}
    /\ wLast.known

\* C1: no two FileRecords ever share a content hash; and when no step has
\* raised and a file is handled whose bytes equal those of a file handled
\* before, the file is deleted from processing as a duplicate, no FileRecord
\* and no event row is added, and exactly one FileRecord has the digest, which
\* has reached committed.
C1_DedupByFileHash ==
    /\ \A i, j \in DOMAIN wManifest :
         i # j => wManifest[i].sha256 # wManifest[j].sha256
    /\ (SecondSubmission /\ ~wFaulted) =>
         /\ wLast.outcome = "duplicate"
         /\ ~(\E g \in wProcessing : g.name = wLast.path)
         /\ Len(wManifest) = wLast.records
         /\ Cardinality(wEvents) = wLast.rows
         /\ Cardinality(RecordsOfLast) = 1
         /\ \A i \in RecordsOfLast :
              /\ wManifest[i].ingested_at_utc # 0
              /\ wManifest[i].status \in {"committed", "deleted"}

\* Two files of three lines with the same bytes have been handled with no step
\* raising, the second under another name.
C1_Witness ==
    /\ SecondSubmission /\ ~wFaulted
    /\ Len(wLast.content) = 3
    /\ wLast.name.stem = "b"
    /\ Len(wManifest) = 1 /\ wManifest[1].rel_path.stem = "a"
    /\ Cardinality(wEvents) = 3

\* C2: a file whose processing produced no event (an empty file) is in
\* quarantine with a reason saying no events were produced, and its
\* FileRecord is never marked committed.
C2_ZeroEventsQuarantined ==
    (/\ wLast.outcome \notin {"none", "absent", "ignored", "not-moved", "duplicate"}
     /\ wLast.content = <<>>) =>
        /\ \E e \in wQuarantine :
             e.name = wLast.path /\ e.reason = "no events produced"
        /\ \A i \in DOMAIN wManifest :
             i = wLast.file_id => wManifest[i].ingested_at_utc = 0

\* C11: delivering a batch that was delivered before is idempotent (the
\* stored events are unchanged, inserted = 0, received = the batch length);
\* in every state no two stored events share a content_hash, and every ok
\* response has inserted <= received.
C11_BatchDeliveryIdempotent ==
    /\ \A i, j \in 1..Len(sStore) :
          sStore[i].content_hash = sStore[j].content_hash => i = j
    /\ sResp.ok = "True" =>
          /\ sResp.inserted <= sResp.received
          /\ sResp.received = Len(sBatch)
    /\ (sResp.ok = "True" /\ sRepeat) =>
          /\ sStore = sBefore
          /\ sResp.inserted = 0

\* a batch with two different storable events was delivered a second time
C11_Witness ==
    /\ sRepeat
    /\ sResp.ok = "True"
    /\ sCalls = 2
    /\ Len(sBatch) = 2
    /\ Len(sStore) = 2
    /\ \A i \in 1..2 : ~sBatch[i].bad
    /\ sBatch[1].content_hash # sBatch[2].content_hash

\* the names with one of the ignored extensions, in any letter case
IgnoredName(name) ==
    name.suffix \in {".tmp", ".TMP", ".partial", ".swp", ".crdownload"}

\* C12: a file of the incoming directory whose extension is .tmp, .partial,
\* .swp or .crdownload, in any letter case, is never moved, hashed, recorded
\* or quarantined: no event for it does anything, no such name is in the
\* processing or quarantine directory or in the manifest, and the file stays
\* in the incoming directory.
C12_IgnoredSuffixUntouched ==
    /\ [](/\ \A f \in wProcessing : ~IgnoredName(f.name)
          /\ \A e \in wQuarantine : ~IgnoredName(e.name)
          /\ \A i \in DOMAIN wManifest : ~IgnoredName(wManifest[i].rel_path)
          /\ IgnoredName(wLast.name) => wLast.outcome \in {"absent", "ignored"})
    /\ [][\A f \in wIncoming : IgnoredName(f.name) => f \in wIncoming']_vars

\* an event for a.TMP, present in the incoming directory, was handled
C12_Witness ==
    /\ IgnoredName(wLast.name)
    /\ wLast.name.suffix = ".TMP"
    /\ wLast.outcome = "ignored"
    /\ \E f \in wIncoming : f.name = wLast.name

\* C13: whatever step fails while a file is handled, the event handlers
\* on_created, on_moved and on_modified return normally: no exception leaves
\* a handler for the observer thread.
C13_HandlersReturnNormally == ~wLast.escaped

\* C14: when quota enforcement reports that the store is still over quota
\* with nothing prunable, ingestion is not stopped: the log record that
\* ingest was called with is still inserted.
C14_OverQuotaStillIngests ==
    (qPc \in {"ingested", "skipped"} /\ qRet.ok = "False" /\ qAlerts > 0)
        => qPc = "ingested"

C16_StoreOpsUnderLock ==
    /\ lkPhase = "busy" => lkOwner = "observer"
    /\ ~lkOverlap

\* C17: after a restart every file that the processing directory held at
\* start-up is eventually re-attempted and leaves the processing directory
\* for a terminal state.
C17_RestartReattempts ==
    [](wBoot # {} => <>(wBoot \cap wProcessing = {}))

\* C18: when process_one_file returns, the file it moved into the processing
\* directory has reached a terminal state (committed with the file deleted,
\* quarantined, or deleted as a duplicate) and is no longer in the
\* processing directory.
C18_MovedFileLeavesProcessing ==
    wLast.outcome \in MovedOutcomes =>
        /\ \A g \in wProcessing : g.name # wLast.path
        /\ wLast.outcome = "committed" =>
              wManifest[wLast.file_id].status = "deleted"

\* C19: a FileRecord's status moves only along processing -> committed ->
\* deleted or processing -> error: a record in error status was never marked
\* committed (its ingested_at_utc, which the committed mark sets, is unset);
\* a record that reached committed has an event row for every line of its
\* file; and a record marked deleted by the last run has its file removed
\* from the processing directory.
C19_StatusLifecycle ==
    /\ \A i \in DOMAIN wManifest :
          /\ wManifest[i].status = "error" => wManifest[i].ingested_at_utc = 0
          /\ wManifest[i].status \in {"committed", "deleted"} =>
                Cardinality({e \in wEvents : e.file_id = i}) = wManifest[i].bytes
    /\ (wLast.file_id # 0 /\ wManifest[wLast.file_id].status = "deleted") =>
          \A g \in wProcessing : g.name # wLast.path

\* C20: a newly arrived file is deleted as a duplicate when, and only when, a
\* FileRecord with its digest exists that has reached committed (the
\* committed mark has set its ingested_at_utc): a digest that matches only a
\* record in processing or error status does not get the file dropped.
C20_DuplicateOnlyOfCommitted ==
    /\ wLast.outcome = "duplicate" =>
          \E i \in RecordsOfLast : wManifest[i].ingested_at_utc # 0
    /\ (SecondSubmission /\ ~wFaulted) => wLast.outcome = "duplicate"

\* C21: whenever an exception is raised after the file was moved to
\* processing (hashing, manifest insert, line streaming, batch insert), the
\* file ends in the quarantine directory with a reason note carrying the
\* exception text, and its FileRecord, if one was created, ends in status
\* error.
C21_FailedFileEndsQuarantined ==
    wLast.outcome = "quarantined" =>
        /\ \E e \in wQuarantine :
              /\ e.name = wLast.path
              /\ e.note = 1
              /\ e.reason \in {"Ingest error: hash", "Ingest error: insert",
                               "Ingest error: events"}
        /\ wLast.file_id # 0 => wManifest[wLast.file_id].status = "error"

\* C22: a successful ingestion inserts all event rows, then marks the
\* FileRecord committed, then deletes the source file, then invokes quota
\* enforcement: quota enforcement is invoked only for a file whose record is
\* committed with all its rows stored, after the unlink was attempted, and a
\* record is marked deleted only once committed; every run that ends
\* committed has invoked it before process_one_file returns.
C22_CommitDeleteThenQuota ==
    /\ wLast.quota # "none" =>
          /\ wLast.outcome = "committed"
          /\ wManifest[wLast.file_id].status \in {"committed", "deleted"}
          /\ wManifest[wLast.file_id].ingested_at_utc = wNow - 1
          /\ Cardinality({e \in wEvents : e.file_id = wLast.file_id})
                = Len(wLast.content)
          /\ (wManifest[wLast.file_id].status = "deleted")
                <=> (\A g \in wProcessing : g.name # wLast.path)
    /\ wLast.outcome = "committed" => wLast.quota \in {"True", "False"}
    /\ \A i \in DOMAIN wManifest :
          wManifest[i].status = "deleted" =>
              /\ wManifest[i].ingested_at_utc # 0
              /\ Cardinality({e \in wEvents : e.file_id = i}) = wManifest[i].bytes

\* a file of three lines is committed, and one whose unlink failed as well
C22_Witness ==
    /\ wLast.outcome = "committed"
    /\ wLast.quota = "False"
    /\ Len(wLast.content) = 3
    /\ \E i \in DOMAIN wManifest :
          i # wLast.file_id /\ wManifest[i].status = "committed"

\* C23: a discovered file is moved into the processing directory only after
\* its size was read N consecutive times with the same value; a file whose
\* size is still changing when the stability wait gives up is not moved.
C23_MovedOnlyWhenStable ==
    stProc # {} => (stRet = "True" /\ stEqual >= checks)

\* C24: a file that disappears from the incoming directory during the
\* stability wait is abandoned: nothing appears in the processing directory,
\* the run never reaches the steps that create a FileRecord or quarantine a
\* file, process_one_file returns normally from its failed move, and it does
\* so within the 4 * checks samples and the retries rename attempts.
C24_VanishedFileAbandoned ==
    /\ stI <= checks * 4
    /\ stTries <= retries
    /\ stVanished =>
          /\ stProc = {}
          /\ stPc \in {"stat", "sample", "move", "done"}
          /\ stPc = "sample" => stI < checks * 4
          /\ stOutcome \notin MovedEndings
          /\ stPc = "done" => stOutcome = "not-moved"

\* the file vanished after some samples and process_one_file has returned
C24_Witness ==
    /\ stVanished
    /\ stPc = "done"
    /\ stOutcome = "not-moved"
    /\ stI > 1
    /\ stTries = retries

\* C25: move_atomic never overwrites a file of the processing directory: a
\* run that moves a file leaves every file that was there in place, and when
\* the name is taken the moved file gets that name with a timestamp between
\* stem and suffix.
C25_MoveNeverOverwrites ==
    [][(wNow' # wNow /\ wLast'.outcome \in MovedOutcomes) =>
          \A g \in wProcessing :
              /\ g \in wProcessing'
              /\ g.name = wLast'.name =>
                    /\ wLast'.path # g.name
                    /\ wLast'.path.stamp # 0
                    /\ wLast'.path.stem = g.name.stem
                    /\ wLast'.path.suffix = g.name.suffix]_vars

\* a file has been moved under a stamped name and the file that held its
\* name is still in processing
C25_Witness ==
    /\ wLast.outcome \in MovedOutcomes
    /\ wLast.path.stamp # 0
    /\ \E g \in wProcessing : g.name = wLast.name

\* C26: moving a failed file into quarantine is collision-safe: a capture
\* that is followed by no purge leaves every file the quarantine directory
\* held, with its reason note, as it was.
C26_QuarantineCollisionSafe ==
    [][(wNow' # wNow /\ wLast'.outcome = "quarantined" /\ ~wLast'.purged) =>
          \A e \in wQuarantine : e \in wQuarantine']_vars

\* C27: purge_quarantine leaves everything outside the quarantine directory
\* unchanged: no step of a purge run creates, modifies or deletes a file of
\* the incoming or the processing directory, a FileRecord or an event row.
C27_PurgeTouchesQuarantineOnly ==
    [][pPc' = "done" =>
          /\ pTree' = pTree
          /\ wIncoming' = wIncoming /\ wProcessing' = wProcessing
          /\ wManifest' = wManifest /\ wEvents' = wEvents]_vars

\* a purge has deleted a quarantined file while the incoming and the
\* processing directory each hold a file at least as old
C27_Witness ==
    /\ pPc = "done"
    /\ \E f \in pBefore :
          /\ \A g \in pDir : g.name # f.name
          /\ \E i \in pTree.incoming : i.mtime <= f.mtime
          /\ \E p \in pTree.processing : p.mtime <= f.mtime

\* The files a purge run deleted in its size-cap step.
CapDeleted == {f \in pAfterAge : \A g \in pDir : g.name # f.name}

\* C28: over its cap after the age purge, and with no unlink failing, the
\* quarantine directory loses files strictly oldest first, only as many as
\* bring the total to the cap (before the youngest deleted file went, the
\* total was still over the cap), and ends at or under the cap or empty.
C28_CapPurgeStopsAtCap ==
    (pPc = "done" /\ pFails = {}
        /\ dir_size_bytes(pAfterAge) > pCfg.max_bytes) =>
        /\ \A f \in CapDeleted : \A g \in pDir : g.mtime >= f.mtime
        /\ \E f \in CapDeleted :
              /\ \A g \in CapDeleted : g.mtime <= f.mtime
              /\ dir_size_bytes(pDir \cup {f}) > pCfg.max_bytes
        /\ dir_size_bytes(pDir) <= pCfg.max_bytes \/ pDir = {}

\* A row older than the minimum retention period: its event time, or its
\* ingestion time when it has none, is before the cutoff.
OlderThanRetention(r) ==
    TimeBefore(LoopRowTime(r), Cutoff(qNow, qCfg.retention))

\* C29: when quota enforcement returns, a store that was at or below the high
\* watermark has lost no row and the result is success with zero bytes freed;
\* a store that was above it is at or below the low watermark or holds no row
\* older than the minimum retention period.
C29_PrunesDownToLowWatermark ==
    (qPc = "done" /\ qRet.ok \in {"True", "False"}) =>
        /\ (qSize <= qCfg.high /\ qDeleted = {}) =>
              qRet = [ok |-> "True", freed |-> 0]
        /\ (qSize > qCfg.high \/ qDeleted # {}) =>
              \/ qSize <= qCfg.low
              \/ \A r \in qRows : ~OlderThanRetention(r)

\* C30: rows are pruned in age order, a row's age being its event time or,
\* without one, its ingestion time: enforcement never deletes a row while it
\* keeps an older row that is older than the retention period, and a pass
\* that had to prune and did not fill its batch leaves no row without an
\* event time that was ingested before the retention cutoff.
C30_PrunedInAgeOrder ==
    (qPc = "done" /\ qRet.ok \in {"True", "False"}) =>
        /\ \A d \in qDeleted, k \in qRows :
              OlderThanRetention(k) =>
                  ~TimeBefore(LoopRowTime(k), LoopRowTime(d))
        /\ ((qSize > qCfg.high \/ qDeleted # {})
                /\ Cardinality(qDeleted) < DeleteBatch) =>
              \A k \in qRows :
                  ~(k.time = NullTime
                      /\ TimeBefore(k.ingest, Cutoff(qNow, qCfg.retention)))

\* C31: enforce_quota returns (ok, freed_bytes) where ok is false exactly
\* when the store is still above the high watermark after pruning, and
\* freed_bytes is the size before minus the size after.
C31_QuotaResult ==
    [][(qImpl = "enforce_quota" /\ qPc = "idle" /\ qPc' = "done") =>
          /\ (qRet'.ok = "False") <=> (qSize' > qCfg.high)
          /\ qRet'.freed = qSize - qSize']_vars

\* C32: whenever quota enforcement ends with the store still above the high
\* watermark and no row older than the retention period left, it has emitted
\* a STORAGE_HIGH alert and returned a not-under-control result; and it has
\* emitted no STORAGE_HIGH alert when it ends with the store at or below the
\* high watermark.
C32_StorageHighAlert ==
    (qPc = "done" /\ qRet.ok \in {"True", "False"}) =>
        /\ (qSize > qCfg.high /\ \A r \in qRows : ~OlderThanRetention(r)) =>
              (qAlerts > 0 /\ qRet.ok = "False")
        /\ qSize <= qCfg.high => qAlerts = 0

\* The confidence each registered handler returns for the sample: a handler
\* without a sniff method is not asked.
HandlerScores(reg, sample) ==
    [i \in DOMAIN reg |->
        IF HasSniff(reg[i]) THEN LogFileHandler_sniff(sample) ELSE 0]

\* i is the first index of the highest score, and that score is positive.
FirstOfHighestPositive(scores, i) ==
    /\ scores[i] > 0
    /\ \A j \in DOMAIN scores : scores[j] <= scores[i]
    /\ \A j \in DOMAIN scores : j < i => scores[j] # scores[i]

\* Two entries share the highest score.
TiedAtTop(scores) ==
    \E i, j \in DOMAIN scores :
        /\ i # j /\ scores[i] = scores[j]
        /\ \A k \in DOMAIN scores : scores[k] <= scores[i]

\* C33: when several registered parsers return the same highest positive
\* confidence for a sample, the one registered first is selected, by
\* best_parser and choose_parser among the parsers and by sniff_file and
\* sniff_best_handler among the handlers.
C33_FirstRegisteredWinsTies ==
    /\ (UsesParsers(selOp) /\ selCalls >= 1) =>
           \A i \in DOMAIN pReg :
               FirstOfHighestPositive(Scored(pReg, selIn.lines, csvDialect), i)
                   => selLast = pReg[i]
    /\ (selOp = "sniff_file" /\ selCalls >= 1 /\ selIn.readable
          /\ selIn.evtx = "none") =>
           \A i \in DOMAIN hReg :
               FirstOfHighestPositive(HandlerScores(hReg, SampleOf(selIn)), i)
                   => selLast = hReg[i]
    /\ (selOp = "sniff_best_handler" /\ selCalls >= 1) =>
           \A i \in DOMAIN hReg :
               FirstOfHighestPositive(HandlerScores(hReg, selIn.lines), i)
                   => selLast = hReg[i]

\* best_parser on a sample that two registered parsers score alike, above
\* every other: the one registered first is returned.
C33_Witness ==
    /\ selOp = "best_parser" /\ selCalls >= 1
    /\ pReg = <<"custom", "csv", "txt">>
    /\ TiedAtTop(Scored(pReg, selIn.lines, csvDialect))
    /\ Scored(pReg, selIn.lines, csvDialect)[1] > 0
    /\ selLast = "custom"

\* sniff_file on a file that two registered handlers score alike.
C33_HandlerTie ==
    /\ selOp = "sniff_file" /\ selCalls >= 1
    /\ selIn.readable /\ selIn.evtx = "none"
    /\ TiedAtTop(HandlerScores(hReg, SampleOf(selIn)))
    /\ selLast = "applog"

\* The orders in which the parsers of a registry can have been registered.
RegistrationOrders(reg) ==
    {q \in [DOMAIN reg -> Range(reg)] : Range(q) = Range(reg)}

\* What the observed parser selection returns with the registry in order q.
ParserSelected(op, q, sample) ==
    IF op = "choose_parser" THEN choose_parser(q, sample, csvDialect)
    ELSE best_parser(q, sample, csvDialect)

\* C34 as claimed: the parser selected for a sample does not depend on the
\* order in which the parsers were registered: for every permutation of the
\* same set of registered parsers, selection returns the same parser.
C34_Original ==
    (UsesParsers(selOp) /\ selCalls >= 1) =>
        \A q \in RegistrationOrders(pReg) :
            ParserSelected(selOp, q, selIn.lines) = selLast

\* C34 as amended: whenever no two registered parsers return the same highest
\* confidence for the sample, the parser selected does not depend on the order
\* in which the parsers were registered: for every permutation of the same set
\* of registered parsers, selection returns the same parser.
C34_OrderIndependentWithoutTie ==
    (UsesParsers(selOp) /\ selCalls >= 1
       /\ ~TiedAtTop(Scored(pReg, selIn.lines, csvDialect))) =>
        \A q \in RegistrationOrders(pReg) :
            ParserSelected(selOp, q, selIn.lines) = selLast

\* best_parser selected the JSON-lines parser, registered second of four, for
\* a sample the plain-text parser scores as well.
C34_Witness ==
    /\ selOp = "best_parser" /\ selCalls >= 1
    /\ pReg = ImportedParsers
    /\ ~TiedAtTop(Scored(pReg, selIn.lines, csvDialect))
    /\ selLast = "jsonl"

\* C35: a readable file whose first seven bytes are the Windows event-log
\* signature is assigned the EVTX handler by sniff_file, whatever the
\* registered handlers would score: no registered handler's sniff is called.
C35_EvtxShortCircuit ==
    (selOp = "sniff_file" /\ selCalls >= 1 /\ selIn.readable
       /\ selIn.evtx # "none") =>
        /\ selLast = "evtx"
        /\ SniffCalls(hReg, selIn) = {}

\* A file with the signature whose sample a registered handler would score
\* above 0, under a registry that does not hold the EVTX handler.
C35_Witness ==
    /\ selOp = "sniff_file" /\ selCalls >= 1
    /\ selIn.readable /\ selIn.evtx = "records"
    /\ "evtx" \notin Range(hReg)
    /\ HandlerScores(hReg, SampleOf(selIn))[1] > 0
    /\ selLast = "evtx"

\* C36: for every input line parse_line returns either a NormalizedEvent or
\* the skip value and never raises: a blank or malformed line and valid JSON
\* that is not an object are skipped, and a timestamp dateutil cannot parse
\* gives an event whose event_time is null.
C36_ParseLineNeverRaises ==
    plOut # NotParsed =>
        /\ plOut.kind \in {"event", "skip"}
        /\ plLine.kind \in {"blank", "malformed", "array", "scalar"} =>
               plOut.kind = "skip"
        /\ (plOut.kind = "event" /\ plLine.ts # "valid") =>
               plOut.ev.event_time = None

\* The store operations of the file in flight that have returned.
OpsDone ==
    SubSeq(lkOps, 1, IF lkPhase = "finished" THEN lkI ELSE lkI - 1)

OpDone(name) == \E j \in DOMAIN OpsDone : OpsDone[j].name = name

\* C37: when stop_watcher closes the connection while a file is being
\* processed, the file has completed (committed and deleted, or deleted as a
\* duplicate) or none of its event rows is committed to the store, and no
\* operation of the observer thread is running on the connection.
C37_StopLeavesFileWhole ==
    [][(lkStop = "closing" /\ lkStop' = "closed") =>
          /\ lkPhase # "busy"
          /\ \/ OpDone("file_manifest_mark_deleted")
             \/ lkI > Len(lkOps)
             \/ ~OpDone("commit")]_vars

\* What C38 says of a committed file: its n lines are stored as n rows, each
\* line once, in increasing line order with the line numbers 1..n.
StoredOneToN ==
    smPc = "committed" => smStored = [k \in 1..smLines |-> k]

\* A batch that has reached batch_size does not survive the check that
\* follows the append.
FlushedWhenFull ==
    smPc = "readline" => (smRows = <<>> \/ Len(smRows) < smBatchSize)

\* C38 as claimed: for a file of n lines that is committed, exactly n event
\* rows are stored, each line exactly once, in increasing line order with line
\* numbers 1..n; the in-memory batch never holds more than batch_size rows and
\* is flushed whenever it reaches batch_size, the remainder at end of file.
C38_Original ==
    /\ StoredOneToN
    /\ Len(smRows) <= smBatchSize
    /\ FlushedWhenFull

\* C38 as amended: for a file of n lines that is committed, exactly n event
\* rows are stored, each line exactly once, in increasing line order with line
\* numbers 1..n; with a batch_size of at least 1 the in-memory batch never
\* holds more than batch_size rows; the batch is flushed whenever it reaches
\* batch_size, the remainder at end of file.
C38_RowsOncePerLine ==
    /\ StoredOneToN
    /\ smBatchSize >= 1 => Len(smRows) <= smBatchSize
    /\ FlushedWhenFull

\* A committed file of four lines read with a batch size of three: one full
\* batch and a remainder of one row.
C38_Witness ==
    /\ smPc = "committed"
    /\ smLines = 4 /\ smBatchSize = 3
    /\ smRows = <<4>>
    /\ Len(smStored) = 4

\* C39: ingestion of one file is all-or-nothing with respect to the store:
\* whenever a file ends quarantined with its FileRecord marked error, the
\* store holds no event row that belongs to that FileRecord.
C39_QuarantinedLeavesNoRows ==
    \A i \in DOMAIN wManifest :
        (wLast.outcome = "quarantined" /\ wLast.file_id = i
           /\ wManifest[i].status = "error") =>
            ~(\E e \in wEvents : e.file_id = i)

\* C40: SQLiteBackend.write_batch always returns: the pruning loop it starts
\* when the database file exceeds the maximum size terminates for every
\* store state, also when the events table has become empty while the file
\* is still larger than the target.
C40_WriteBatchReturns ==
    (bkPc = "pruning") ~> (bkPc = "returned")

=============================================================================
